---- MODULE Spec2Model ----
(***************************************************************************)
(* qdb: a query-planning and caching layer over IndexedDB.                 *)
(*                                                                         *)
(* The model follows the repository's sources:                             *)
(*   engine  (later)   src/unnamed/part_001  Engine, scanKeys,             *)
(*                                           buildCompositePKRange         *)
(*   engine  (earlier) src/unnamed/part_000  Engine (lines 207-605)        *)
(*   facade            src/unnamed/part_000  qdb    (lines 1-205)          *)
(*   LRU cache         src/unnamed/part_002  LRUCache                      *)
(*   builders          src/unnamed/part_003  Query, UpdateQuery,           *)
(*                                           RemoveQuery                   *)
(*                                                                         *)
(* Representation.  A field value is a natural number.  A primary key is   *)
(* the tuple of its components; a store whose key path has one field has   *)
(* scalar keys, kept here as 1-tuples, and `composite` tells the two       *)
(* apart wherever the code asks Array.isArray.  The substrate orders keys  *)
(* as IndexedDB does: component by component, an array component after     *)
(* every number, a proper prefix before its extensions.                    *)
(***************************************************************************)
EXTENDS Integers, Sequences, FiniteSets, TLC

(***************************************************************************)
(* Bounds of the exploration.                                              *)
(***************************************************************************)
\* field values range over 0..MaxVal
MaxVal == 1
\* offsets and limits range over 0..MaxPage
MaxPage == 2
\* cache_limit, the capacity the handle is constructed with
CacheLimit == 2
\* rows the store holds at most in the lifecycle exploration
MaxRows == 2
\* calls made on a cache in the LRU exploration
MaxCalls == 4
\* keys passed to one hydration call at most
MaxKeys == 3
\* subscriptions made on one handle at most
MaxSubs == 2

Val == 0..MaxVal

(***************************************************************************)
(* Schemas (src/tests/qdb.test.ts:6-19 and src/src/db/qdb.test.ts:8-21).   *)
(* Every record carries the key fields, the index fields and the payload   *)
(* field "point".                                                          *)
(***************************************************************************)
CompositeSchema ==
  [pk |-> <<"id", "age", "karma">>, index |-> <<"salary">>, encoding |-> TRUE]

ScalarSchema ==
  [pk |-> <<"id">>, index |-> <<"age">>, encoding |-> TRUE]

SeqRange(s) == {s[i] : i \in 1..Len(s)}

PayloadFields == {"point"}

FieldsOf(sch) == SeqRange(sch.pk) \cup SeqRange(sch.index) \cup PayloadFields

Ops == {"==", ">", ">=", "<", "<="}

VARIABLES
  ver,      \* which engine file is linked: "later" (part_001) or "earlier" (part_000)
  schema,   \* the store's schema, fixed at construction
  db,       \* Engine.db: "null" until onsuccess assigns it; then "open", a
            \* database with every declared store, or "lacking", one that
            \* has this store and lacks another store the schema declares
  store,    \* the object store: primary key -> stored record
  cache,    \* LRUCache.cache: the Map's entries, least recently used first
  written,  \* history: primary key -> the record most recently written for it
  last,     \* the settled request the caller is about to resume from
  calls,    \* history: the LRUCache calls made directly on a cache, in order
  subs,     \* qdb.events: the subscriptions made so far, in order, each with
            \* its event name and whether its listener is still registered
  other,    \* a second object store of the same database and schema:
            \* primary key -> stored record
  inflight, \* the requests that have started and not settled, each with its
            \* position and its local variables
  builder   \* the Query object the caller keeps between terminal calls: its
            \* recorded clauses and keysOnly flag, or <<>> when it keeps none

vars ==
  <<ver, schema, db, store, cache, written, last, calls, subs, other, inflight, builder>>

(***************************************************************************)
(* IndexedDB key order and key ranges.                                     *)
(***************************************************************************)
\* the empty array [] the planner uses as a component that sorts last
EmptyArray == -1

CmpVal(a, b) ==
  IF a = b THEN 0
  ELSE IF a = EmptyArray THEN 1
  ELSE IF b = EmptyArray THEN -1
  ELSE IF a < b THEN -1 ELSE 1

RECURSIVE CmpKeyFrom(_, _, _)
CmpKeyFrom(a, b, i) ==
  IF i > Len(a) /\ i > Len(b) THEN 0
  ELSE IF i > Len(a) THEN -1
  ELSE IF i > Len(b) THEN 1
  ELSE LET c == CmpVal(a[i], b[i])
       IN  IF c # 0 THEN c ELSE CmpKeyFrom(a, b, i + 1)

CmpKey(a, b) == CmpKeyFrom(a, b, 1)

\* an IDBKeyRange; `bad` records that the constructor throws DataError
NullRange ==
  [hasLo |-> FALSE, lo |-> <<>>, loOpen |-> FALSE,
   hasUp |-> FALSE, up |-> <<>>, upOpen |-> FALSE, bad |-> FALSE]

KeyRangeBound(lower, upper, lowerOpen, upperOpen) ==
  [hasLo |-> TRUE, lo |-> lower, loOpen |-> lowerOpen,
   hasUp |-> TRUE, up |-> upper, upOpen |-> upperOpen,
   bad |-> \/ CmpKey(lower, upper) > 0
           \/ (CmpKey(lower, upper) = 0 /\ (lowerOpen \/ upperOpen))]

KeyRangeOnly(x) == KeyRangeBound(x, x, FALSE, FALSE)

KeyRangeLowerBound(x, open) ==
  [hasLo |-> TRUE, lo |-> x, loOpen |-> open,
   hasUp |-> FALSE, up |-> <<>>, upOpen |-> FALSE, bad |-> FALSE]

KeyRangeUpperBound(x, open) ==
  [hasLo |-> FALSE, lo |-> <<>>, loOpen |-> FALSE,
   hasUp |-> TRUE, up |-> x, upOpen |-> open, bad |-> FALSE]

InRange(k, r) ==
  /\ r.hasLo => IF r.loOpen THEN CmpKey(k, r.lo) > 0 ELSE CmpKey(k, r.lo) >= 0
  /\ r.hasUp => IF r.upOpen THEN CmpKey(k, r.up) < 0 ELSE CmpKey(k, r.up) <= 0

(***************************************************************************)
(* Cursors.  The object store yields (key, primaryKey) = (pk, pk); an      *)
(* index on field f yields (record[f], pk) for the records that have f.    *)
(* Entries come in ascending (key, primaryKey) order, reversed for "prev". *)
(***************************************************************************)
StoreSource == "#store"

EntryLess(a, b) ==
  \/ CmpKey(a.key, b.key) < 0
  \/ (CmpKey(a.key, b.key) = 0 /\ CmpKey(a.primaryKey, b.primaryKey) < 0)

RECURSIVE InsertEntry(_, _, _)
InsertEntry(sorted, e, i) ==
  IF i > Len(sorted) THEN Append(sorted, e)
  ELSE IF EntryLess(e, sorted[i])
  THEN SubSeq(sorted, 1, i - 1) \o <<e>> \o SubSeq(sorted, i, Len(sorted))
  ELSE InsertEntry(sorted, e, i + 1)

\* the entries of S in ascending order
RECURSIVE SortEntries(_)
SortEntries(S) ==
  IF S = {} THEN <<>>
  ELSE LET e == CHOOSE x \in S : TRUE
       IN  InsertEntry(SortEntries(S \ {e}), e, 1)

RECURSIVE Reverse(_)
Reverse(s) == IF s = <<>> THEN <<>> ELSE Append(Reverse(Tail(s)), Head(s))

SourceEntries(st, source) ==
  IF source = StoreSource
  THEN {[key |-> k, primaryKey |-> k] : k \in DOMAIN st}
  ELSE {[key |-> <<st[k][source]>>, primaryKey |-> k] :
          k \in {x \in DOMAIN st : source \in DOMAIN st[x]}}

openKeyCursor(st, source, range, direction) ==
  LET asc == SortEntries({e \in SourceEntries(st, source) : InRange(e.key, range)})
  IN  IF direction = "prev" THEN Reverse(asc) ELSE asc

\* scanKeys: the primary keys a forward cursor over `range` visits, in order
RECURSIVE PrimaryKeys(_)
PrimaryKeys(es) ==
  IF es = <<>> THEN <<>> ELSE <<Head(es).primaryKey>> \o PrimaryKeys(Tail(es))

scanKeys(st, source, range) == PrimaryKeys(openKeyCursor(st, source, range, "next"))

(***************************************************************************)
(* The range planner (later engine).                                       *)
(***************************************************************************)
HasWhere(wheres, f) == \E i \in 1..Len(wheres) : wheres[i].field = f

\* new Map(wheres.map(w => [w.field, w])): the last clause on a field wins
fieldToWhere(wheres, f) ==
  wheres[CHOOSE i \in 1..Len(wheres) :
           /\ wheres[i].field = f
           /\ \A j \in (i + 1)..Len(wheres) : wheres[j].field # f]

\* one iteration of the first loop on a component that has clause w
RECURSIVE WalkPK(_, _, _, _)
WalkStep(pkPath, wheres, i, prefix, w) ==
  IF w.op = "=="
  THEN WalkPK(pkPath, wheres, i + 1, Append(prefix, w.value))
  ELSE IF i < Len(pkPath) /\ HasWhere(wheres, pkPath[i + 1])
  THEN [prefix |-> prefix, op |-> w.op, value |-> w.value,
        ranged |-> FALSE, err |-> "LaterComponents"]
  ELSE [prefix |-> prefix, op |-> w.op, value |-> w.value,
        ranged |-> TRUE, err |-> "none"]

\* the first loop: collect the equality prefix, stop at the first range
WalkPK(pkPath, wheres, i, prefix) ==
  IF i > Len(pkPath) \/ ~HasWhere(wheres, pkPath[i])
  THEN [prefix |-> prefix, op |-> "==", value |-> 0, ranged |-> FALSE, err |-> "none"]
  ELSE WalkStep(pkPath, wheres, i, prefix, fieldToWhere(wheres, pkPath[i]))

\* variant: the second loop never throws
NotContiguousNever(pkPath, wheres, walk) == FALSE

\* the second loop: a clause on a component the prefix did not reach
NotContiguous(pkPath, wheres, walk) ==
  \E i \in 1..Len(pkPath) :
    /\ HasWhere(wheres, pkPath[i])
    /\ i > Len(walk.prefix)
    /\ ~walk.ranged

\* variant: ">" starts at the value itself, like ">="
CompositeRangeFromValue(prefix, op, value) ==
  IF op = ">" \/ op = ">="
  THEN KeyRangeBound(Append(prefix, value), Append(prefix, EmptyArray), FALSE, FALSE)
  ELSE IF op = "<"
  THEN KeyRangeBound(prefix, Append(prefix, value), FALSE, TRUE)
  ELSE KeyRangeBound(prefix, prefix \o <<value, EmptyArray>>, FALSE, FALSE)

CompositeRange(prefix, op, value) ==
  IF op = ">"
  THEN KeyRangeBound(prefix \o <<value, EmptyArray>>, Append(prefix, EmptyArray),
                     FALSE, FALSE)
  ELSE IF op = ">="
  THEN KeyRangeBound(Append(prefix, value), Append(prefix, EmptyArray), FALSE, FALSE)
  ELSE IF op = "<"
  THEN KeyRangeBound(prefix, Append(prefix, value), FALSE, TRUE)
  ELSE KeyRangeBound(prefix, prefix \o <<value, EmptyArray>>, FALSE, FALSE)

ScalarRange(op, value) ==
  IF op = ">" THEN KeyRangeLowerBound(<<value>>, TRUE)
  ELSE IF op = ">=" THEN KeyRangeLowerBound(<<value>>, FALSE)
  ELSE IF op = "<" THEN KeyRangeUpperBound(<<value>>, TRUE)
  ELSE KeyRangeUpperBound(<<value>>, FALSE)

\* variant: a point match on the prefix whatever its length
EqualityRangeOnly(pkPath, prefix, isCompositePK) ==
  IF isCompositePK THEN KeyRangeOnly(prefix) ELSE KeyRangeOnly(<<prefix[1]>>)

EqualityRange(pkPath, prefix, isCompositePK) ==
  IF isCompositePK
  THEN IF Len(prefix) = Len(pkPath)
       THEN KeyRangeOnly(prefix)
       ELSE KeyRangeBound(prefix, Append(prefix, EmptyArray), FALSE, FALSE)
  ELSE KeyRangeOnly(<<prefix[1]>>)

\* the range built once both loops have passed
PlannedRange(pkPath, isCompositePK, walk) ==
  IF walk.ranged
  THEN IF isCompositePK
       THEN CompositeRange(walk.prefix, walk.op, walk.value)
       ELSE ScalarRange(walk.op, walk.value)
  ELSE EqualityRange(pkPath, walk.prefix, isCompositePK)

\* a range the IDBKeyRange constructor accepts, or its DataError
Constructed(range) ==
  IF range.bad THEN [range |-> NullRange, err |-> "DataError"]
  ELSE [range |-> range, err |-> "none"]

\* the checks that follow the first loop, in the code's order
PlanAfterWalk(pkPath, wheres, isCompositePK, walk) ==
  IF walk.err # "none" THEN [range |-> NullRange, err |-> walk.err]
  ELSE IF isCompositePK /\ NotContiguous(pkPath, wheres, walk)
  THEN [range |-> NullRange, err |-> "NotContiguous"]
  ELSE IF Len(walk.prefix) = 0 /\ ~walk.ranged
  THEN [range |-> NullRange, err |-> "none"]
  ELSE Constructed(PlannedRange(pkPath, isCompositePK, walk))

\* the planner's outcome: err = "none" and a range (NullRange for `null`),
\* or the error it throws
buildCompositePKRange(pkPath, wheres, isCompositePK) ==
  IF Len(wheres) = 0 THEN [range |-> NullRange, err |-> "none"]
  ELSE PlanAfterWalk(pkPath, wheres, isCompositePK, WalkPK(pkPath, wheres, 1, <<>>))

(***************************************************************************)
(* The scan and intersect engine.                                          *)
(***************************************************************************)
\* `undefined` for an absent limit or offset
Undefined == -1

\* no order field given (orderField is undefined)
NoField == ""

\* the text the code joins composite components with ("\x00")
Sep == "\\x00"

RECURSIVE JoinFrom(_, _)
JoinFrom(key, i) ==
  IF i > Len(key) THEN ""
  ELSE IF i = Len(key) THEN ToString(key[i])
  ELSE ToString(key[i]) \o Sep \o JoinFrom(key, i + 1)

\* Array.isArray(key) ? key.join("\x00") : String(key)
normalizeKey(key, isArray) ==
  IF isArray THEN JoinFrom(key, 1) ELSE ToString(key[1])

\* Set.has on raw keys (earlier engine): a scalar key is found by value,
\* an array key only by identity, and every cursor key is a fresh array
RawSetHas(set, pk, isArray) == ~isArray /\ pk \in set

PassesNormalized(nsets, pk, isArray) ==
  \A s \in 1..Len(nsets) : normalizeKey(pk, isArray) \in nsets[s]

PassesRaw(sets, pk, isArray) ==
  \A s \in 1..Len(sets) : RawSetHas(sets[s], pk, isArray)

\* variant: the walk stops one entry late
LimitReachedLate(limit, count) == limit # Undefined /\ count > limit

\* `limit !== undefined && results.length >= limit`, after the push
LimitReached(limit, count) == limit # Undefined /\ count >= limit

\* the filter-set test of the handler
Passes(sets, normalized, pk, isArray) ==
  IF normalized THEN PassesNormalized(sets, pk, isArray)
                ELSE PassesRaw(sets, pk, isArray)

\* the ordering cursor's onsuccess handler, entry by entry
RECURSIVE WalkCursor(_, _, _, _, _, _, _, _, _)
WalkCursor(entries, i, sets, normalized, isArray, offset, limit, skipped, results) ==
  IF i > Len(entries) THEN results
  ELSE IF ~Passes(sets, normalized, entries[i].primaryKey, isArray)
  THEN WalkCursor(entries, i + 1, sets, normalized, isArray, offset, limit,
                  skipped, results)
  ELSE IF skipped < offset
  THEN WalkCursor(entries, i + 1, sets, normalized, isArray, offset, limit,
                  skipped + 1, results)
  ELSE IF LimitReached(limit, Len(results) + 1)
  THEN Append(results, entries[i].primaryKey)
  ELSE WalkCursor(entries, i + 1, sets, normalized, isArray, offset, limit,
                  skipped, Append(results, entries[i].primaryKey))

IndexRange(w) ==
  IF w.op = "==" THEN KeyRangeOnly(<<w.value>>)
  ELSE IF w.op = ">" THEN KeyRangeLowerBound(<<w.value>>, TRUE)
  ELSE IF w.op = ">=" THEN KeyRangeLowerBound(<<w.value>>, FALSE)
  ELSE IF w.op = "<" THEN KeyRangeUpperBound(<<w.value>>, TRUE)
  ELSE KeyRangeUpperBound(<<w.value>>, FALSE)

RECURSIVE FilterWheres(_, _, _)
FilterWheres(wheres, fields, keep) ==
  IF wheres = <<>> THEN <<>>
  ELSE LET rest == FilterWheres(Tail(wheres), fields, keep)
       IN  IF (Head(wheres).field \in fields) = keep
           THEN <<Head(wheres)>> \o rest ELSE rest

SeqToSet(s) == {s[i] : i \in 1..Len(s)}

\* variant: any key component may order a composite key
OrderErrorUnindexedOnly(sch, orderField) ==
  IF orderField = NoField \/ orderField \in SeqRange(sch.pk) \cup SeqRange(sch.index)
  THEN "none"
  ELSE "OrderNotIndexed"

\* the isPK / isIndex tests and the two ORDER BY errors (later engine)
OrderError(sch, orderField) ==
  LET isPK == orderField \in SeqRange(sch.pk)
      isIndex == orderField \in SeqRange(sch.index)
  IN  IF orderField = NoField THEN "none"
      ELSE IF ~isPK /\ ~isIndex THEN "OrderNotIndexed"
      ELSE IF isPK /\ Len(sch.pk) > 1 /\ sch.pk[1] # orderField THEN "OrderNotFirst"
      ELSE "none"

OrderingSource(sch, orderField) ==
  IF orderField = NoField \/ orderField \in SeqRange(sch.pk)
  THEN StoreSource ELSE orderField

\* variant: no clause outside the key is scanned
ScannedIndexWheresNone(indexWheres, orderField) == <<>>

\* the index clauses that get a scan: those not on the order field
ScannedIndexWheres(indexWheres, orderField) ==
  FilterWheres(indexWheres, {orderField}, FALSE)

\* offset = 0 when the caller passes none
OffsetOr0(offset) == IF offset = Undefined THEN 0 ELSE offset

\* variant: the cursor always walks forward
DirectionNext(orderDir) == "next"

Direction(orderDir) == IF orderDir = "desc" THEN "prev" ELSE "next"

\* the PK scan: one filter set when the planner returns a range
PKSets(st, plan) ==
  IF plan.err = "none" /\ plan.range # NullRange
  THEN <<SeqToSet(scanKeys(st, StoreSource, plan.range))>>
  ELSE <<>>

\* the index scans: one filter set per scanned clause
RECURSIVE IndexSets(_, _)
IndexSets(st, scanned) ==
  IF scanned = <<>> THEN <<>>
  ELSE <<SeqToSet(scanKeys(st, Head(scanned).field, IndexRange(Head(scanned))))>>
       \o IndexSets(st, Tail(scanned))

\* filterSets.map(set => new Set(Array.from(set).map(normalizeKey)))
RECURSIVE NormalizedSets(_, _)
NormalizedSets(filterSets, isArray) ==
  IF filterSets = <<>> THEN <<>>
  ELSE <<{normalizeKey(k, isArray) : k \in Head(filterSets)}>>
       \o NormalizedSets(Tail(filterSets), isArray)

\* the source of the PK scan's cursor, when the planner returns a range
PKCursors(plan) ==
  IF plan.err = "none" /\ plan.range # NullRange THEN <<StoreSource>> ELSE <<>>

\* the sources of the index scans' cursors: the loop scans clause by clause
\* and throws at the first clause whose field is no index
RECURSIVE IndexCursors(_, _)
IndexCursors(sch, scanned) ==
  IF scanned = <<>> \/ Head(scanned).field \notin SeqRange(sch.index) THEN <<>>
  ELSE <<Head(scanned).field>> \o IndexCursors(sch, Tail(scanned))

\* the throws of the later engine in the code's order, then the cursor walk;
\* scans lists the sources a key cursor was opened on, in order
KeysOrThrow(st, sch, orderField, orderDir, limit, offset, scanned, plan, orderErr) ==
  IF orderErr # "none" THEN [err |-> orderErr, keys |-> <<>>, scans |-> <<>>]
  ELSE IF plan.err # "none" THEN [err |-> plan.err, keys |-> <<>>, scans |-> <<>>]
  ELSE IF \E i \in 1..Len(scanned) : scanned[i].field \notin SeqRange(sch.index)
  THEN [err |-> "NotIndexed", keys |-> <<>>,
        scans |-> PKCursors(plan) \o IndexCursors(sch, scanned)]
  ELSE [err |-> "none",
        keys |-> WalkCursor(
                   openKeyCursor(st, OrderingSource(sch, orderField), NullRange,
                                 Direction(orderDir)),
                   1,
                   NormalizedSets(PKSets(st, plan) \o IndexSets(st, scanned),
                                  Len(sch.pk) > 1),
                   TRUE, Len(sch.pk) > 1, OffsetOr0(offset), limit, 0, <<>>),
        scans |-> PKCursors(plan) \o IndexCursors(sch, scanned)
                  \o <<OrderingSource(sch, orderField)>>]

\* Engine.getKeysByIndexes of the later engine, after the db guard
getKeysByIndexes(st, sch, wheres, orderField, orderDir, limit, offset) ==
  KeysOrThrow(st, sch, orderField, orderDir, limit, offset,
              ScannedIndexWheres(FilterWheres(wheres, SeqRange(sch.pk), FALSE),
                                 orderField),
              buildCompositePKRange(sch.pk, FilterWheres(wheres, SeqRange(sch.pk), TRUE),
                                    Len(sch.pk) > 1),
              OrderError(sch, orderField))

\* the earlier engine compares the key path to the field name as a whole,
\* so only a one-field key is a PK field
IsPKEarlier(sch, f) == Len(sch.pk) = 1 /\ sch.pk[1] = f

SourceEarlier(sch, f) == IF IsPKEarlier(sch, f) THEN StoreSource ELSE f

\* one filter set per clause that is not on the order field
RECURSIVE FilterSetsEarlier(_, _, _)
FilterSetsEarlier(st, sch, scanned) ==
  IF scanned = <<>> THEN <<>>
  ELSE <<SeqToSet(scanKeys(st, SourceEarlier(sch, Head(scanned).field),
                           IndexRange(Head(scanned))))>>
       \o FilterSetsEarlier(st, sch, Tail(scanned))

\* the sources of the filter scans' cursors, up to the first clause whose
\* field is neither the key nor an index
RECURSIVE CursorsEarlier(_, _)
CursorsEarlier(sch, scanned) ==
  IF scanned = <<>>
     \/ (~IsPKEarlier(sch, Head(scanned).field)
         /\ Head(scanned).field \notin SeqRange(sch.index))
  THEN <<>>
  ELSE <<SourceEarlier(sch, Head(scanned).field)>> \o CursorsEarlier(sch, Tail(scanned))

KeysOrThrowEarlier(st, sch, orderField, orderDir, limit, offset, scanned) ==
  IF orderField # NoField /\ ~IsPKEarlier(sch, orderField)
     /\ orderField \notin SeqRange(sch.index)
  THEN [err |-> "OrderNotIndexed", keys |-> <<>>, scans |-> <<>>]
  ELSE IF \E i \in 1..Len(scanned) :
            /\ ~IsPKEarlier(sch, scanned[i].field)
            /\ scanned[i].field \notin SeqRange(sch.index)
  THEN [err |-> "NotIndexed", keys |-> <<>>, scans |-> CursorsEarlier(sch, scanned)]
  ELSE [err |-> "none",
        keys |-> WalkCursor(
                   openKeyCursor(st,
                                 IF orderField = NoField THEN StoreSource
                                 ELSE SourceEarlier(sch, orderField),
                                 NullRange, Direction(orderDir)),
                   1, FilterSetsEarlier(st, sch, scanned), FALSE, Len(sch.pk) > 1,
                   OffsetOr0(offset), limit, 0, <<>>),
        scans |-> CursorsEarlier(sch, scanned)
                  \o <<IF orderField = NoField THEN StoreSource
                       ELSE SourceEarlier(sch, orderField)>>]

\* Engine.getKeysByIndexes of the earlier engine, after the db guard
getKeysByIndexesEarlier(st, sch, wheres, orderField, orderDir, limit, offset) ==
  KeysOrThrowEarlier(st, sch, orderField, orderDir, limit, offset,
                     FilterWheres(wheres, {orderField}, FALSE))

(***************************************************************************)
(* The codec adapter.  The caller's codec is any pair with                 *)
(* decode(encode(p)) = p; here it wraps the payload in a tagged pair.      *)
(***************************************************************************)
codecEncode(p) == <<"wire", p>>

codecDecode(w) == w[2]

\* variant: only the key fields count as indexed
IndexedFieldsKeyOnly(sch) == SeqRange(sch.pk)

\* [...pk, ...index]
IndexedFields(sch) == SeqRange(sch.pk) \cup SeqRange(sch.index)

Restrict(f, S) == [x \in S |-> f[x]]

\* { ...a, ...b }: b's fields override a's
Spread(a, b) ==
  [f \in DOMAIN a \cup DOMAIN b |-> IF f \in DOMAIN b THEN b[f] ELSE a[f]]

\* a payload of numbers has no buffer to normalize: the object is rebuilt
normalizeUint8Arrays(obj) == [k \in DOMAIN obj |-> obj[k]]

encode(sch, data) ==
  IF ~sch.encoding THEN data
  ELSE LET indexed == Restrict(data, DOMAIN data \cap IndexedFields(sch))
           dataObj == Restrict(data, DOMAIN data \ IndexedFields(sch))
       IN  [f \in DOMAIN indexed \cup {"data"} |->
              IF f = "data" THEN codecEncode(dataObj) ELSE indexed[f]]

decode(sch, data) ==
  IF ~sch.encoding THEN data
  ELSE LET indexed == [f \in IndexedFields(sch) |->
                         IF f \in DOMAIN data THEN data[f] ELSE Undefined]
           normalized == normalizeUint8Arrays(codecDecode(data["data"]))
       IN  Spread(indexed, normalized)

(***************************************************************************)
(* The object store: put extracts the key along the key path and upserts.  *)
(***************************************************************************)
EmptyStore == [k \in {} |-> 0]

\* variant: the key path is the first key field alone
KeyOfFirstField(sch, rec) == <<rec[sch.pk[1]]>>

KeyOf(sch, rec) == [i \in 1..Len(sch.pk) |-> rec[sch.pk[i]]]

Upsert(st, k, v) == [x \in DOMAIN st \cup {k} |-> IF x = k THEN v ELSE st[x]]

Without(st, k) == [x \in DOMAIN st \ {k} |-> st[x]]

\* variant: the put request is never issued
enginePutNothing(st, sch, userData) == st

\* Engine.put after the db guard
enginePut(st, sch, userData) ==
  LET storageData == encode(sch, userData)
  IN  Upsert(st, KeyOf(sch, storageData), storageData)

\* variant: the delete request is never issued
engineDeleteNothing(st, key) == st

\* Engine.delete after the db guard
engineDelete(st, key) == Without(st, key)

(***************************************************************************)
(* The LRU cache.  The Map compares keys by SameValueZero: a number by     *)
(* value, an array by identity.  `obj` marks a key that is an array; such  *)
(* a key is built afresh at every call and equals no key in the Map.       *)
(***************************************************************************)
StoreName == "Employee"

\* the later engine's key [storeName, k]
CacheKeyLater(storeName, k) == [store |-> storeName, k |-> k, obj |-> TRUE]

\* the earlier engine's key k: a number, or an array for a composite key
CacheKeyEarlier(k, isArray) == [store |-> "", k |-> k, obj |-> isArray]

MapIndex(c, ck) ==
  IF ck.obj \/ ~\E i \in 1..Len(c) : c[i].key = ck THEN 0
  ELSE CHOOSE i \in 1..Len(c) : c[i].key = ck

RemoveAt(c, i) == [j \in 1..(Len(c) - 1) |-> IF j < i THEN c[j] ELSE c[j + 1]]

\* `if (lruKey)`: an array is truthy, the number 0 is not
Truthy(ck) == ck.obj \/ ck.k[1] # 0

\* variant: a hit returns the value and leaves the entry where it was
GetAtInPlace(c, i) ==
  IF i = 0 THEN [cache |-> c, value |-> Undefined, hit |-> FALSE]
  ELSE [cache |-> c, value |-> c[i].value, hit |-> TRUE]

\* the Map after a hit on entry i, or unchanged on a miss
GetAt(c, i) ==
  IF i = 0 THEN [cache |-> c, value |-> Undefined, hit |-> FALSE]
  ELSE [cache |-> Append(RemoveAt(c, i), c[i]), value |-> c[i].value, hit |-> TRUE]

\* LRUCache.get: the cache after the call and whether it hit
lruGet(c, ck) == GetAt(c, MapIndex(c, ck))

\* the eviction at the end of set
Evicted(c, capacity) ==
  IF Len(c) > capacity /\ Truthy(c[1].key) THEN Tail(c) ELSE c

\* the delete of an existing entry at the start of set
Dropped(c, i) == IF i = 0 THEN c ELSE RemoveAt(c, i)

\* LRUCache.set
lruSet(c, ck, v, capacity) ==
  Evicted(Append(Dropped(c, MapIndex(c, ck)), [key |-> ck, value |-> v]), capacity)

\* LRUCache.has
lruHas(c, ck) == MapIndex(c, ck) # 0

\* LRUCache.delete
lruDelete(c, ck) == Dropped(c, MapIndex(c, ck))

\* LRUCache.clear
lruClear(c) == <<>>

(***************************************************************************)
(* The hydration pipeline.                                                 *)
(***************************************************************************)
CacheKey(v, storeName, k, isArray) ==
  IF v = "later" THEN CacheKeyLater(storeName, k) ELSE CacheKeyEarlier(k, isArray)

\* one pass of the first loop: a hit goes to results, a miss to misses
Looked(acc, key, g) ==
  IF g.hit
  THEN [acc EXCEPT !.cache = g.cache, !.results = Upsert(acc.results, key, g.value)]
  ELSE [acc EXCEPT !.cache = g.cache, !.misses = Append(acc.misses, key)]

\* the first loop: cache.get for every key, hits into results, misses aside
RECURSIVE Lookups(_, _, _, _, _, _)
Lookups(v, storeName, isArray, keys, i, acc) ==
  IF i > Len(keys) THEN acc
  ELSE Lookups(v, storeName, isArray, keys, i + 1,
               Looked(acc, keys[i],
                      lruGet(acc.cache, CacheKey(v, storeName, keys[i], isArray))))

\* r.onsuccess of one store.get: a found row is decoded, cached and kept
Fetched(acc, ck, k, res, capacity) ==
  [acc EXCEPT !.cache = lruSet(acc.cache, ck, res, capacity),
              !.results = Upsert(acc.results, k, res)]

\* the store.get callbacks, in request order
RECURSIVE Fetches(_, _, _, _, _, _, _, _)
Fetches(v, storeName, sch, st, capacity, misses, i, acc) ==
  IF i > Len(misses) THEN acc
  ELSE Fetches(v, storeName, sch, st, capacity, misses, i + 1,
               IF misses[i] \in DOMAIN st
               THEN Fetched(acc, CacheKey(v, storeName, misses[i], Len(sch.pk) > 1), misses[i],
                            decode(sch, st[misses[i]]), capacity)
               ELSE acc)

RECURSIVE Resolved(_, _)
Resolved(keys, results) ==
  IF keys = <<>> THEN <<>>
  ELSE IF Head(keys) \in DOMAIN results
  THEN <<results[Head(keys)]>> \o Resolved(Tail(keys), results)
  ELSE Resolved(Tail(keys), results)

\* variant: the records found in the cache first, the fetched ones after
HydratedHitsFirst(keys, a, b) ==
  [cache |-> b.cache, misses |-> a.misses,
   records |-> Resolved(SelectSeq(keys, LAMBDA k : k \notin SeqToSet(a.misses)),
                        b.results)
               \o Resolved(a.misses, b.results)]

\* what getRecordsByKeys returns once every store.get has answered
Hydrated(keys, a, b) ==
  [cache |-> b.cache, misses |-> a.misses, records |-> Resolved(keys, b.results)]

AfterLookups(v, storeName, sch, st, capacity, keys, a) ==
  Hydrated(keys, a, Fetches(v, storeName, sch, st, capacity, a.misses, 1, a))

\* Engine.getRecordsByKeys: the records, the cache afterwards, the keys read
getRecordsByKeys(v, storeName, sch, st, c, capacity, keys) ==
  AfterLookups(v, storeName, sch, st, capacity, keys,
               Lookups(v, storeName, Len(sch.pk) > 1, keys, 1,
                       [cache |-> c, results |-> EmptyStore, misses |-> <<>>]))

\* variant: a failed read is passed over and the list of the others returned
RejectedPartial(keys, results) == Resolved(keys, results)

\* Promise.all rejects with r.error: the awaiting caller gets no list
Rejected(keys, results) == <<>>

\* the outcome when the store.get of misses[fails] fires onerror: the reads
\* before it had answered, the transaction aborts and the promise rejects
HydrationFaulted(keys, a, b, given) ==
  [cache |-> b.cache, misses |-> a.misses, records |-> given]

FaultedAfterLookups(v, storeName, sch, st, capacity, keys, a, fails, b) ==
  HydrationFaulted(keys, a, b, Rejected(keys, b.results))

\* Engine.getRecordsByKeys when the read of its fails-th miss fails
getRecordsFaulted(v, storeName, sch, st, capacity, keys, a, fails) ==
  FaultedAfterLookups(v, storeName, sch, st, capacity, keys, a, fails,
                      Fetches(v, storeName, sch, st, capacity,
                              SubSeq(a.misses, 1, fails - 1), 1, a))

(***************************************************************************)
(* The builders.  A request q carries what the chained calls recorded:     *)
(*   wheres, order = [called, field, dir], limit, offset.                  *)
(***************************************************************************)
NoOrder == [field |-> NoField, called |-> FALSE, dir |-> "asc"]

\* asc(field) / desc(field): this.orderField = field || schema.pk[0]
BuilderOrderField(sch, order) ==
  IF ~order.called THEN NoField
  ELSE IF order.field = NoField THEN sch.pk[1] ELSE order.field

engineKeys(v, sch, st, q) ==
  IF v = "later"
  THEN getKeysByIndexes(st, sch, q.wheres, BuilderOrderField(sch, q.order),
                        q.order.dir, q.limit, q.offset)
  ELSE getKeysByIndexesEarlier(st, sch, q.wheres, BuilderOrderField(sch, q.order),
                               q.order.dir, q.limit, q.offset)

\* the second half of executeQuery: keys as they are, or hydrated
WithRecords(got, hyd) ==
  [cache |-> hyd.cache, err |-> "none", keys |-> got.keys, scans |-> got.scans,
   records |-> hyd.records]

AfterKeys(v, storeName, sch, st, c, keysOnly, got) ==
  IF got.err # "none"
  THEN [cache |-> c, err |-> got.err, keys |-> <<>>, scans |-> got.scans,
        records |-> <<>>]
  ELSE IF keysOnly
  THEN [cache |-> c, err |-> "none", keys |-> got.keys, scans |-> got.scans,
        records |-> <<>>]
  ELSE WithRecords(got, getRecordsByKeys(v, storeName, sch, st, c, CacheLimit, got.keys))

\* QueryBuilder.executeQuery on an open database
executeQuery(v, storeName, sch, st, c, q, keysOnly) ==
  AfterKeys(v, storeName, sch, st, c, keysOnly, engineKeys(v, sch, st, q))

\* the loop of UpdateQuery.exec: merge the patch over each record and put it
RECURSIVE PutAll(_, _, _, _)
PutAll(sch, st, records, updates) ==
  IF records = <<>> THEN st
  ELSE PutAll(sch, enginePut(st, sch, Spread(Head(records), updates)),
              Tail(records), updates)

RECURSIVE NoteAll(_, _, _, _)
NoteAll(sch, w, records, updates) ==
  IF records = <<>> THEN w
  ELSE LET updated == Spread(Head(records), updates)
       IN  NoteAll(sch, Upsert(w, KeyOf(sch, updated), updated), Tail(records), updates)

\* the loop of RemoveQuery.exec
RECURSIVE DeleteAll(_, _)
DeleteAll(st, keys) ==
  IF keys = <<>> THEN st ELSE DeleteAll(engineDelete(st, Head(keys)), Tail(keys))

(***************************************************************************)
(* Requests.  Each action is one awaited call of the public surface, from  *)
(* its first line to the settling of its promise; `last` holds what the    *)
(* caller receives, and Resume is the caller going on to its next call.    *)
(***************************************************************************)
Idle ==
  [op |-> "none", err |-> "none", count |-> 0, keys |-> <<>>, scans |-> <<>>,
   data |-> <<>>, records |-> <<>>, q |-> <<>>, emitted |-> <<>>, heard |-> <<>>]

Failed(op, q, data, err) ==
  [op |-> op, err |-> err, count |-> 0, keys |-> <<>>, scans |-> <<>>,
   data |-> data, records |-> <<>>, q |-> q, emitted |-> <<>>, heard |-> <<>>]

\* the event qdb.emit builds
Event(action, data) == [name |-> StoreName \o "-" \o action, detail |-> data]

\* variant: removeEventListener has no effect
ListensStill(s, e) == s.event = e.name

\* the target holds the wrapper of subscription s under the event's name
Listens(s, e) == s.active /\ s.event = e.name

\* dispatchEvent: the registered listeners of the event's name are called
\* with its detail, in the order they were added
RECURSIVE Dispatched(_, _, _)
Dispatched(ss, e, i) ==
  IF i > Len(ss) THEN <<>>
  ELSE (IF Listens(ss[i], e)
        THEN <<[detail |-> e.detail, sub |-> i]>> ELSE <<>>)
       \o Dispatched(ss, e, i + 1)

\* qdb.subscribe: a new wrapper around the listener is added to the target
Subscribe(event) ==
  /\ last.op = "none"
  /\ subs' = Append(subs, [event |-> event, active |-> TRUE])
  /\ UNCHANGED <<builder, inflight, other, ver, schema, db, store, cache, written, last, calls>>

\* the function subscribe returned for subscription i: removeEventListener
Unsubscribe(i) ==
  /\ last.op = "none"
  /\ subs' = [subs EXCEPT ![i].active = FALSE]
  /\ UNCHANGED <<builder, inflight, other, ver, schema, db, store, cache, written, last, calls>>

Open ==
  /\ last.op = "none"
  /\ db = "null"
  /\ db' = "open"
  /\ UNCHANGED <<builder, inflight, other, ver, schema, store, cache, written, last, calls, subs>>

\* open() on a database of the same version that lacks a declared store:
\* onsuccess assigns this.db, then finds the store missing and rejects
OpenRejects ==
  /\ last.op = "none"
  /\ db = "null"
  /\ db' = "lacking"
  /\ last' = Failed("open", <<>>, <<>>, "StoreNotFound")
  /\ UNCHANGED <<builder, inflight, other, ver, schema, store, cache, written, calls, subs>>

\* qdb.put
Put(rec, maxRows) ==
  /\ last.op = "none"
  /\ KeyOf(schema, rec) \in DOMAIN store \/ Cardinality(DOMAIN store) < maxRows
  /\ IF db = "null"
     THEN /\ last' = Failed("put", <<>>, rec, "NotOpen")
          /\ UNCHANGED <<store, written>>
     ELSE /\ store' = enginePut(store, schema, rec)
          /\ written' = Upsert(written, KeyOf(schema, rec), rec)
          /\ last' = [Idle EXCEPT !.op = "put", !.data = rec,
                                  !.emitted = <<Event("ADD", rec)>>,
                                  !.heard = Dispatched(subs, Event("ADD", rec), 1)]
  /\ UNCHANGED <<builder, inflight, other, ver, schema, db, cache, calls, subs>>

\* what keys() resolves or rejects with, given executeQuery's outcome r
KeysSettled(q, r) ==
  [Idle EXCEPT !.op = "keys", !.q = q, !.err = r.err, !.keys = r.keys,
               !.scans = r.scans]

\* all(): the records, and the cache as the hydration left it
AllSettled(q, r) ==
  /\ last' = [Idle EXCEPT !.op = "all", !.q = q, !.err = r.err,
                          !.keys = r.keys, !.records = r.records,
                          !.scans = r.scans]
  /\ cache' = r.cache

\* UpdateQuery.exec after executeQuery: the merge-and-put loop and the emit
UpdateSettled(updates, q, r) ==
  IF r.err # "none"
  THEN /\ last' = [Failed("update", q, updates, r.err) EXCEPT !.scans = r.scans]
       /\ UNCHANGED <<store, cache, written>>
  ELSE /\ store' = PutAll(schema, store, r.records, updates)
       /\ written' = NoteAll(schema, written, r.records, updates)
       /\ cache' = r.cache
       /\ last' = [Idle EXCEPT !.op = "update", !.q = q, !.data = updates,
                               !.keys = r.keys, !.records = r.records,
                               !.count = Len(r.records), !.scans = r.scans,
                               !.emitted = <<Event("UP", updates)>>,
                               !.heard = Dispatched(subs, Event("UP", updates), 1)]

\* RemoveQuery.exec after executeQuery: the delete loop and the emit
RemoveSettled(q, r) ==
  IF r.err # "none"
  THEN /\ last' = [Failed("remove", q, <<>>, r.err) EXCEPT !.scans = r.scans]
       /\ UNCHANGED <<store, written>>
  ELSE /\ store' = DeleteAll(store, r.keys)
       /\ written' = DeleteAll(written, r.keys)
       /\ last' = [Idle EXCEPT !.op = "remove", !.q = q, !.keys = r.keys,
                               !.scans = r.scans,
                               !.emitted = <<Event("RM", r.keys)>>,
                               !.heard = Dispatched(subs, Event("RM", r.keys), 1)]

\* Query.keys
QueryKeys(q) ==
  /\ last.op = "none"
  /\ IF db = "null"
     THEN last' = Failed("keys", q, <<>>, "NotOpen")
     ELSE last' = KeysSettled(q, executeQuery(ver, StoreName, schema, store, cache, q, TRUE))
  /\ UNCHANGED <<builder, inflight, other, ver, schema, db, store, cache, written, calls, subs>>

\* Query.all
QueryAll(q) ==
  /\ last.op = "none"
  /\ IF db = "null"
     THEN /\ last' = Failed("all", q, <<>>, "NotOpen")
          /\ UNCHANGED cache
     ELSE AllSettled(q, executeQuery(ver, StoreName, schema, store, cache, q, FALSE))
  /\ UNCHANGED <<builder, inflight, other, ver, schema, db, store, written, calls, subs>>

\* variant: one() also starts again from the first match
OneLimitedFromStart(q) == [q EXCEPT !.limit = 1, !.offset = Undefined]

\* one(): this.limitVal = 1
OneLimited(q) == [q EXCEPT !.limit = 1]

\* one() resolves with results[0]: a sequence of one record, or the empty
\* sequence for `undefined`
OneSettled(q, r) ==
  /\ last' = [Idle EXCEPT !.op = "one", !.q = q, !.err = r.err, !.keys = r.keys,
                          !.scans = r.scans,
                          !.records = IF r.records = <<>> THEN <<>>
                                      ELSE <<r.records[1]>>]
  /\ cache' = r.cache

\* Query.one
QueryOne(q) ==
  /\ last.op = "none"
  /\ IF db = "null"
     THEN /\ last' = Failed("one", q, <<>>, "NotOpen")
          /\ UNCHANGED cache
     ELSE OneSettled(q, executeQuery(ver, StoreName, schema, store, cache, OneLimited(q), FALSE))
  /\ UNCHANGED <<builder, inflight, other, ver, schema, db, store, written, calls, subs>>

\* qdb.update(...).exec: UpdateQuery.exec, then the facade's emit
UpdateExec(updates, q) ==
  /\ last.op = "none"
  /\ IF db = "null"
     THEN /\ last' = Failed("update", q, updates, "NotOpen")
          /\ UNCHANGED <<store, cache, written>>
     ELSE UpdateSettled(updates, q, executeQuery(ver, StoreName, schema, store, cache, q, FALSE))
  /\ UNCHANGED <<builder, inflight, other, ver, schema, db, calls, subs>>

\* qdb.remove(...).exec: RemoveQuery.exec, then the facade's emit
RemoveExec(q) ==
  /\ last.op = "none"
  /\ IF db = "null"
     THEN /\ last' = Failed("remove", q, <<>>, "NotOpen")
          /\ UNCHANGED <<store, written>>
     ELSE RemoveSettled(q, executeQuery(ver, StoreName, schema, store, cache, q, TRUE))
  /\ UNCHANGED <<builder, inflight, other, ver, schema, db, cache, calls, subs>>

\* variant: a failed write undoes the writes of the batch made before it
CompletedNone(items, fails) == <<>>

\* the iterations a write loop completed when the write of item `fails`
\* rejects: each write is awaited, so the loop stops at the first rejection
Completed(items, fails) == SubSeq(items, 1, fails - 1)

\* UpdateQuery.exec when the put of record `fails` rejects: exec rejects, so
\* the facade's emit is not reached.  last keeps the selected keys and
\* records, and in count the number of puts that had succeeded.
UpdateFaulted(updates, q, r, fails) ==
  /\ store' = PutAll(schema, store, Completed(r.records, fails), updates)
  /\ written' = NoteAll(schema, written, Completed(r.records, fails), updates)
  /\ cache' = r.cache
  /\ last' = [Failed("update", q, updates, "SubstrateError")
                EXCEPT !.keys = r.keys, !.records = r.records,
                       !.count = fails - 1, !.scans = r.scans]

UpdateFaultedAfter(updates, q, r) ==
  /\ r.err = "none"
  /\ \E fails \in 1..Len(r.records) : UpdateFaulted(updates, q, r, fails)

\* qdb.update(...).exec with a put that the substrate rejects
UpdateExecFaulted(updates, q) ==
  /\ last.op = "none"
  /\ db # "null"
  /\ UpdateFaultedAfter(updates, q, executeQuery(ver, StoreName, schema, store, cache, q, FALSE))
  /\ UNCHANGED <<builder, inflight, other, ver, schema, db, calls, subs>>

\* RemoveQuery.exec when the delete of key `fails` rejects
RemoveFaulted(q, r, fails) ==
  /\ store' = DeleteAll(store, Completed(r.keys, fails))
  /\ written' = DeleteAll(written, Completed(r.keys, fails))
  /\ last' = [Failed("remove", q, <<>>, "SubstrateError")
                EXCEPT !.keys = r.keys, !.count = fails - 1, !.scans = r.scans]

RemoveFaultedAfter(q, r) ==
  /\ r.err = "none"
  /\ \E fails \in 1..Len(r.keys) : RemoveFaulted(q, r, fails)

\* qdb.remove(...).exec with a delete that the substrate rejects
RemoveExecFaulted(q) ==
  /\ last.op = "none"
  /\ db # "null"
  /\ RemoveFaultedAfter(q, executeQuery(ver, StoreName, schema, store, cache, q, TRUE))
  /\ UNCHANGED <<builder, inflight, other, ver, schema, db, cache, calls, subs>>

\* the caller resumes after the awaited request settled
Resume ==
  /\ last.op # "none"
  /\ last' = Idle
  /\ UNCHANGED <<builder, inflight, other, ver, schema, db, store, cache, written, calls, subs>>

InitWith(v, sch) ==
  /\ ver = v
  /\ schema = sch
  /\ db = "null"
  /\ store = EmptyStore
  /\ cache = <<>>
  /\ written = EmptyStore
  /\ last = Idle
  /\ calls = <<>>
  /\ subs = <<>>
  /\ other = EmptyStore
  /\ inflight = <<>>
  /\ builder = <<>>

(***************************************************************************)
(* Inputs.                                                                 *)
(***************************************************************************)
Pred(f, op, v) == [field |-> f, op |-> op, value |-> v]

\* per field: no clause, or one clause with any operator and value
Absent == <<"none", 0>>

ClauseChoices == {Absent} \cup (Ops \X Val)

RECURSIVE WheresOf(_, _, _)
WheresOf(fields, choice, i) ==
  IF i > Len(fields) THEN <<>>
  ELSE IF choice[fields[i]] = Absent THEN WheresOf(fields, choice, i + 1)
  ELSE <<Pred(fields[i], choice[fields[i]][1], choice[fields[i]][2])>>
       \o WheresOf(fields, choice, i + 1)

\* every list with at most one clause per field of `fields`, in field order
WhereLists(fields) ==
  {WheresOf(fields, c, 1) : c \in [SeqRange(fields) -> ClauseChoices]}

Request(wheres, order, limit, offset) ==
  [wheres |-> wheres, limit |-> limit, offset |-> offset, order |-> order]

(***************************************************************************)
(* SpecPlan: the later engine on the composite-key store of                *)
(* src/tests/qdb.test.ts.  The database persists between sessions: the     *)
(* handle has been opened over a store that holds a row for every key, or  *)
(* for every key but one.  Requests carry any clauses on the key           *)
(* components and no order, offset or limit.                               *)
(***************************************************************************)
PlanRecords ==
  {r \in [FieldsOf(CompositeSchema) -> Val] : r["salary"] = 0 /\ r["point"] = 0}

\* the logical records of a set, by key
ByKey(sch, recs) ==
  [k \in {KeyOf(sch, r) : r \in recs} |-> CHOOSE r \in recs : KeyOf(sch, r) = k]

\* the object store after a put of each record
Stored(sch, recs) ==
  [k \in {KeyOf(sch, r) : r \in recs} |->
     encode(sch, CHOOSE r \in recs : KeyOf(sch, r) = k)]

PlanRowSets == {PlanRecords} \cup {PlanRecords \ {r} : r \in PlanRecords}

PlanKeys ==
  /\ last.op = "none"
  /\ \E wheres \in WhereLists(CompositeSchema.pk) :
       QueryKeys(Request(wheres, NoOrder, Undefined, Undefined))

InitPlan ==
  /\ ver = "later"
  /\ schema = CompositeSchema
  /\ db = "open"
  /\ \E rows \in PlanRowSets :
       /\ store = Stored(CompositeSchema, rows)
       /\ written = ByKey(CompositeSchema, rows)
  /\ cache = <<>>
  /\ last = Idle
  /\ calls = <<>>
  /\ subs = <<>>
  /\ other = EmptyStore
  /\ inflight = <<>>
  /\ builder = <<>>

NextPlan == PlanKeys \/ Resume

SpecPlan == InitPlan /\ [][NextPlan]_vars

(***************************************************************************)
(* SpecMixed: the later engine on the composite-key store, every key       *)
(* present and the index field following the last key component, so that   *)
(* index order and key order differ.  Requests carry any clauses on the    *)
(* key components and on the index, unordered or ordered by the index.     *)
(***************************************************************************)
MixedRecords ==
  {r \in [FieldsOf(CompositeSchema) -> Val] :
     r["salary"] = r["karma"] /\ r["point"] = 0}

MixedFields == CompositeSchema.pk \o CompositeSchema.index

MixedOrders ==
  {NoOrder} \cup {[field |-> "salary", called |-> TRUE, dir |-> d] : d \in {"asc", "desc"}}

MixedKeys ==
  /\ last.op = "none"
  /\ \E wheres \in WhereLists(MixedFields), order \in MixedOrders :
       QueryKeys(Request(wheres, order, Undefined, Undefined))

InitMixed ==
  /\ ver = "later"
  /\ schema = CompositeSchema
  /\ db = "open"
  /\ store = Stored(CompositeSchema, MixedRecords)
  /\ written = ByKey(CompositeSchema, MixedRecords)
  /\ cache = <<>>
  /\ last = Idle
  /\ calls = <<>>
  /\ subs = <<>>
  /\ other = EmptyStore
  /\ inflight = <<>>
  /\ builder = <<>>

NextMixed == MixedKeys \/ Resume

SpecMixed == InitMixed /\ [][NextMixed]_vars

(***************************************************************************)
(* SpecScan: the later engine on the scalar-key store of                   *)
(* src/src/db/qdb.test.ts, opened over any persisted rows.  Requests carry *)
(* at most one clause, any order, offset and limit, and read keys.         *)
(***************************************************************************)
ScanRecords == {r \in [FieldsOf(ScalarSchema) -> Val] : r["point"] = 0}

ScanRowSets ==
  {S \in SUBSET ScanRecords :
     \A r1, r2 \in S : KeyOf(ScalarSchema, r1) = KeyOf(ScalarSchema, r2) => r1 = r2}

ScanWheres ==
  {<<>>} \cup {<<Pred(f, op, v)>> : f \in {"id", "age"}, op \in Ops, v \in Val}

ScanOrders ==
  {NoOrder} \cup
  {[field |-> f, called |-> TRUE, dir |-> d] : f \in {"id", "age"}, d \in {"asc", "desc"}}

\* an offset or a limit: absent, or any count up to MaxPage
Pages == {Undefined} \cup (0..MaxPage)

ScanRequests ==
  {Request(w, o, l, off) : w \in ScanWheres, o \in ScanOrders, l \in Pages, off \in Pages}

ScanKeys == last.op = "none" /\ \E q \in ScanRequests : QueryKeys(q)

InitScan ==
  /\ ver = "later"
  /\ schema = ScalarSchema
  /\ db = "open"
  /\ \E rows \in ScanRowSets :
       /\ store = Stored(ScalarSchema, rows)
       /\ written = ByKey(ScalarSchema, rows)
  /\ cache = <<>>
  /\ last = Idle
  /\ calls = <<>>
  /\ subs = <<>>
  /\ other = EmptyStore
  /\ inflight = <<>>
  /\ builder = <<>>

NextScan == ScanKeys \/ Resume

SpecScan == InitScan /\ [][NextScan]_vars

(***************************************************************************)
(* SpecRemove: the same store and the same requests, issued as removes;    *)
(* between removes the caller reads keys back with any clause and order.   *)
(***************************************************************************)
ScanRemove == last.op = "none" /\ \E q \in ScanRequests : RemoveExec(q)

ReadBack ==
  /\ last.op = "none"
  /\ \E w \in ScanWheres, o \in ScanOrders :
       QueryKeys(Request(w, o, Undefined, Undefined))

NextRemove == ScanRemove \/ ReadBack \/ Resume

SpecRemove == InitScan /\ [][NextRemove]_vars

(***************************************************************************)
(* Spec: the lifecycle of one handle on the scalar-key store, linked with  *)
(* either engine.  The handle is constructed, opened, and then serves      *)
(* puts, reads, updates and removes one after another.                     *)
(***************************************************************************)
Records == [FieldsOf(ScalarSchema) -> Val]

\* clause lists of the lifecycle requests: none, or one equality
LifeWheres ==
  {<<>>} \cup {<<Pred(f, "==", v)>> : f \in {"id", "age"}, v \in Val}

LifeRequests == {Request(w, NoOrder, Undefined, Undefined) : w \in LifeWheres}

\* partial patches over the fields outside the key path
PatchFields == FieldsOf(ScalarSchema) \ SeqRange(ScalarSchema.pk)

Patches == UNION {[F -> Val] : F \in (SUBSET PatchFields) \ {{}}}

DoPut == last.op = "none" /\ \E rec \in Records : Put(rec, MaxRows)

DoAll == last.op = "none" /\ \E q \in LifeRequests : QueryAll(q)

DoUpdate ==
  /\ last.op = "none"
  /\ \E updates \in Patches, q \in LifeRequests : UpdateExec(updates, q)

DoRemove == last.op = "none" /\ \E q \in LifeRequests : RemoveExec(q)

Init == \E v \in {"earlier", "later"} : InitWith(v, ScalarSchema)

Next == Open \/ DoPut \/ DoAll \/ DoUpdate \/ DoRemove \/ Resume

Spec == Init /\ [][Next]_vars

(***************************************************************************)
(* SpecPut: puts, one after another, into an open store with the three-    *)
(* field key.                                                              *)
(***************************************************************************)
PutRecords == {r \in [FieldsOf(CompositeSchema) -> Val] : r["salary"] = 0}

DoPutRow == last.op = "none" /\ \E rec \in PutRecords : Put(rec, MaxRows)

InitPut ==
  /\ ver = "later"
  /\ schema = CompositeSchema
  /\ db = "open"
  /\ store = EmptyStore
  /\ written = EmptyStore
  /\ cache = <<>>
  /\ last = Idle
  /\ calls = <<>>
  /\ subs = <<>>
  /\ other = EmptyStore
  /\ inflight = <<>>
  /\ builder = <<>>

NextPut == DoPutRow \/ Resume

SpecPut == InitPut /\ [][NextPut]_vars

(***************************************************************************)
(* SpecEmit: the writes of one handle on the scalar-key store, from its    *)
(* construction on: open, put, update and remove, one after another.       *)
(***************************************************************************)
DoPutScan == last.op = "none" /\ \E rec \in ScanRecords : Put(rec, MaxRows)

\* patches of the indexed field
AgePatches == [{"age"} -> Val]

DoUpdateAge ==
  /\ last.op = "none"
  /\ \E updates \in AgePatches, q \in LifeRequests : UpdateExec(updates, q)

NextEmit == Open \/ DoPutScan \/ DoUpdateAge \/ DoRemove \/ Resume

InitEmit == InitWith("later", ScalarSchema)

SpecEmit == InitEmit /\ [][NextEmit]_vars

(***************************************************************************)
(* SpecHydrate: getRecordsByKeys called with any key list, one call after  *)
(* another, on an open store of either engine.  The settled call keeps     *)
(* the keys it read from the store in last.data.                           *)
(***************************************************************************)
RECURSIVE SeqsOver(_, _)
SeqsOver(S, n) ==
  IF n = 0 THEN {<<>>}
  ELSE SeqsOver(S, n - 1) \cup
       {Append(q, x) : q \in {t \in SeqsOver(S, n - 1) : Len(t) = n - 1}, x \in S}

KeyLists == SeqsOver({<<v>> : v \in Val}, MaxKeys) \ {<<>>}

\* what the awaited getRecordsByKeys resolves with, given its outcome h
RecordsSettled(keys, h) ==
  /\ last' = [Idle EXCEPT !.op = "records", !.keys = keys,
                          !.records = h.records, !.data = h.misses]
  /\ cache' = h.cache

\* Engine.getRecordsByKeys on an open database
GetRecords(keys) ==
  /\ last.op = "none"
  /\ db = "open"
  /\ RecordsSettled(keys, getRecordsByKeys(ver, StoreName, schema, store, cache, CacheLimit, keys))
  /\ UNCHANGED <<builder, inflight, other, ver, schema, db, store, written, calls, subs>>

DoGetRecords == last.op = "none" /\ \E keys \in KeyLists : GetRecords(keys)

InitHydrate ==
  /\ ver \in {"earlier", "later"}
  /\ schema = ScalarSchema
  /\ db = "open"
  /\ \E rows \in ScanRowSets :
       /\ store = Stored(ScalarSchema, rows)
       /\ written = ByKey(ScalarSchema, rows)
  /\ cache = <<>>
  /\ last = Idle
  /\ calls = <<>>
  /\ subs = <<>>
  /\ other = EmptyStore
  /\ inflight = <<>>
  /\ builder = <<>>

NextHydrate == DoGetRecords \/ Resume

SpecHydrate == InitHydrate /\ [][NextHydrate]_vars

(***************************************************************************)
(* SpecOne: one() on an open scalar-key store of either engine, with no    *)
(* clause or one equality, and every order and offset.                     *)
(***************************************************************************)
\* one() overrides the limit, so the requests carry none
OneRequests ==
  {Request(w, o, Undefined, off) : w \in LifeWheres, o \in ScanOrders, off \in Pages}

DoOne == last.op = "none" /\ \E q \in OneRequests : QueryOne(q)

NextOne == DoOne \/ Resume

SpecOne == InitHydrate /\ [][NextOne]_vars

(***************************************************************************)
(* SpecLRU: one LRUCache of capacity CacheLimit, called directly with      *)
(* number keys.  calls logs each call with whether the key was held.       *)
(***************************************************************************)
\* a number used as a Map key
NumberKey(n) == CacheKeyEarlier(<<n>>, FALSE)

LRUKeys == {NumberKey(n) : n \in 0..CacheLimit}

Called(name, ck) == [key |-> ck, call |-> name, held |-> lruHas(cache, ck)]

LruGet(ck) ==
  /\ cache' = lruGet(cache, ck).cache
  /\ calls' = Append(calls, Called("get", ck))
  /\ UNCHANGED <<builder, inflight, other, ver, schema, db, store, written, last, subs>>

\* the value set is the number of the call, so every set writes a new value
LruSet(ck) ==
  /\ cache' = lruSet(cache, ck, Len(calls), CacheLimit)
  /\ calls' = Append(calls, Called("set", ck))
  /\ UNCHANGED <<builder, inflight, other, ver, schema, db, store, written, last, subs>>

LruDelete(ck) ==
  /\ cache' = lruDelete(cache, ck)
  /\ calls' = Append(calls, Called("delete", ck))
  /\ UNCHANGED <<builder, inflight, other, ver, schema, db, store, written, last, subs>>

LruClear ==
  /\ cache' = lruClear(cache)
  /\ calls' = Append(calls, Called("clear", NumberKey(0)))
  /\ UNCHANGED <<builder, inflight, other, ver, schema, db, store, written, last, subs>>

DoLruGet == Len(calls) < MaxCalls /\ \E ck \in LRUKeys : LruGet(ck)

DoLruSet == Len(calls) < MaxCalls /\ \E ck \in LRUKeys : LruSet(ck)

DoLruDelete == Len(calls) < MaxCalls /\ \E ck \in LRUKeys : LruDelete(ck)

DoLruClear == Len(calls) < MaxCalls /\ LruClear

InitLRU == InitWith("earlier", ScalarSchema)

NextLRU == DoLruGet \/ DoLruSet \/ DoLruDelete \/ DoLruClear

SpecLRU == InitLRU /\ [][NextLRU]_vars

(***************************************************************************)
(* SpecCodec: Engine.encode and Engine.decode called directly on either    *)
(* store.  A logical record has every key field and any of the other       *)
(* fields.  The settled encode keeps the logical record in last.data and   *)
(* the stored record in last.records; the settled decode moves the stored  *)
(* record to last.keys and puts the decoded record in last.records.        *)
(***************************************************************************)
CodecSchemas == {CompositeSchema, ScalarSchema}

LogicalRecords(sch) ==
  UNION {[SeqRange(sch.pk) \cup F -> Val] : F \in SUBSET (FieldsOf(sch) \ SeqRange(sch.pk))}

\* Engine.encode
Encode(rec) ==
  /\ last.op = "none"
  /\ last' = [Idle EXCEPT !.op = "encode", !.data = rec,
                          !.records = <<encode(schema, rec)>>]
  /\ UNCHANGED <<builder, inflight, other, ver, schema, db, store, cache, written, calls, subs>>

\* Engine.decode of the record the encode returned
Decode ==
  /\ last.op = "encode"
  /\ last' = [Idle EXCEPT !.op = "decode", !.data = last.data,
                          !.keys = last.records,
                          !.records = <<decode(schema, last.records[1])>>]
  /\ UNCHANGED <<builder, inflight, other, ver, schema, db, store, cache, written, calls, subs>>

DoEncode == last.op = "none" /\ \E rec \in LogicalRecords(schema) : Encode(rec)

InitCodec ==
  \E v \in {"earlier", "later"}, sch \in CodecSchemas : InitWith(v, sch)

NextCodec == DoEncode \/ Decode \/ Resume

SpecCodec == InitCodec /\ [][NextCodec]_vars

(***************************************************************************)
(* SpecDecode: decode applied to stored records of any shape the substrate *)
(* can hold: every indexed field at the top level, and a payload that may  *)
(* carry the payload field and a field named like an index.  decode puts   *)
(* the stored record in last.keys and the merged record in last.records.   *)
(***************************************************************************)
StoredPayloads(sch) ==
  UNION {[F -> Val] : F \in SUBSET (PayloadFields \cup {sch.index[1]})}

StoredRecord(top, payload) ==
  [f \in DOMAIN top \cup {"data"} |-> IF f = "data" THEN codecEncode(payload) ELSE top[f]]

StoredRecords(sch) ==
  {StoredRecord(top, p) : top \in [IndexedFields(sch) -> Val], p \in StoredPayloads(sch)}

\* Engine.decode of a record read from the substrate
DecodeStored(row) ==
  /\ last.op = "none"
  /\ last' = [Idle EXCEPT !.op = "decodeStored", !.keys = <<row>>,
                          !.records = <<decode(schema, row)>>]
  /\ UNCHANGED <<builder, inflight, other, ver, schema, db, store, cache, written, calls, subs>>

DoDecodeStored == last.op = "none" /\ \E row \in StoredRecords(schema) : DecodeStored(row)

NextDecode == DoDecodeStored \/ Resume

SpecDecode == InitCodec /\ [][NextDecode]_vars

(***************************************************************************)
(* SpecCanon: the filter-set membership test of the later engine on keys   *)
(* whose components are numbers or strings.  A component is its type and   *)
(* its textual form; among the strings are the digits of each number and   *)
(* one text that contains the separator.  A request canonicalizes the keys *)
(* a scan collected (last.data) and tests one cursor key (last.keys)       *)
(* against them; last.count is 1 when the key passes.                      *)
(***************************************************************************)
Num(v) == [type |-> "number", text |-> ToString(v)]

Str(t) == [type |-> "string", text |-> t]

KeyComponents ==
  {Num(v) : v \in Val} \cup {Str(ToString(v)) : v \in Val}
                       \cup {Str(ToString(0) \o Sep \o ToString(0))}

TypedKeys(sch) == [1..Len(sch.pk) -> KeyComponents]

\* String(x), also the conversion Array.prototype.join applies per element
String(c) == c.text

RECURSIVE JoinTyped(_, _)
JoinTyped(key, i) ==
  IF i > Len(key) THEN ""
  ELSE IF i = Len(key) THEN String(key[i])
  ELSE String(key[i]) \o Sep \o JoinTyped(key, i + 1)

\* normalizeKey on a key of typed components
normalizeKeyTyped(key, isArray) ==
  IF isArray THEN JoinTyped(key, 1) ELSE String(key[1])

\* new Set(Array.from(set).map(normalizeKey)), then set.has(normalizedPK)
HasNormalized(set, pk, isArray) ==
  normalizeKeyTyped(pk, isArray) \in {normalizeKeyTyped(k, isArray) : k \in set}

Membership(set, pk) ==
  /\ last.op = "none"
  /\ last' = [Idle EXCEPT !.op = "member",
                          !.count = IF HasNormalized(set, pk, Len(schema.pk) > 1)
                                    THEN 1 ELSE 0,
                          !.keys = <<pk>>, !.data = set]
  /\ UNCHANGED <<builder, inflight, other, ver, schema, db, store, cache, written, calls, subs>>

DoMembership ==
  /\ last.op = "none"
  /\ \E k \in TypedKeys(schema), pk \in TypedKeys(schema) : Membership({k}, pk)

InitCanon == \E sch \in CodecSchemas : InitWith("later", sch)

NextCanon == DoMembership \/ Resume

SpecCanon == InitCanon /\ [][NextCanon]_vars

(***************************************************************************)
(* SpecStores: one handle of either engine over two scalar-key stores that *)
(* hold rows under the same keys with different payloads.  all() is issued *)
(* on either store in any order; the handle's one cache serves both.       *)
(***************************************************************************)
OtherName == "Archive"

StoresRecords == {r \in [FieldsOf(ScalarSchema) -> Val] : r["age"] = r["id"] /\ r["point"] = 0}

OtherRecords == {r \in [FieldsOf(ScalarSchema) -> Val] : r["age"] = r["id"] /\ r["point"] = 1}

\* all() on the second store: the records, and the cache as hydration left it
OtherSettled(q, r) ==
  /\ last' = [Idle EXCEPT !.op = "allOther", !.q = q, !.err = r.err,
                          !.keys = r.keys, !.records = r.records,
                          !.scans = r.scans]
  /\ cache' = r.cache

\* Query.all of a builder made for the second store
QueryAllOther(q) ==
  /\ last.op = "none"
  /\ IF db = "null"
     THEN /\ last' = Failed("allOther", q, <<>>, "NotOpen")
          /\ UNCHANGED cache
     ELSE OtherSettled(q, executeQuery(ver, OtherName, schema, other, cache, q, FALSE))
  /\ UNCHANGED <<builder, inflight, other, ver, schema, db, store, written, calls, subs>>

DoAllOther == last.op = "none" /\ \E q \in LifeRequests : QueryAllOther(q)

InitStores ==
  /\ ver \in {"earlier", "later"}
  /\ schema = ScalarSchema
  /\ db = "open"
  /\ store = Stored(ScalarSchema, StoresRecords)
  /\ written = ByKey(ScalarSchema, StoresRecords)
  /\ cache = <<>>
  /\ last = Idle
  /\ calls = <<>>
  /\ subs = <<>>
  /\ other = Stored(ScalarSchema, OtherRecords)
  /\ inflight = <<>>
  /\ builder = <<>>

NextStores == DoAll \/ DoAllOther \/ Resume

SpecStores == InitStores /\ [][NextStores]_vars

(***************************************************************************)
(* SpecFault: as SpecHydrate, with calls in which the substrate fails the  *)
(* read of one of the missed keys.  A failed call keeps in last.count the  *)
(* number of reads that had answered before the failing one.               *)
(***************************************************************************)
RecordsFaulted(keys, a, fails, h) ==
  /\ last' = [Failed("records", <<>>, h.misses, "SubstrateError")
                EXCEPT !.keys = keys, !.count = fails - 1, !.records = h.records]
  /\ cache' = h.cache

FaultedAt(keys, a) ==
  \E fails \in 1..Len(a.misses) :
    RecordsFaulted(keys, a, fails,
                   getRecordsFaulted(ver, StoreName, schema, store, CacheLimit,
                                     keys, a, fails))

\* Engine.getRecordsByKeys with a store.get that the substrate fails
GetRecordsFaulted(keys) ==
  /\ last.op = "none"
  /\ db = "open"
  /\ FaultedAt(keys, Lookups(ver, StoreName, Len(schema.pk) > 1, keys, 1,
                             [cache |-> cache, results |-> EmptyStore,
                              misses |-> <<>>]))
  /\ UNCHANGED <<builder, inflight, other, ver, schema, db, store, written, calls, subs>>

DoGetRecordsFaulted == last.op = "none" /\ \E keys \in KeyLists : GetRecordsFaulted(keys)

NextFault == DoGetRecords \/ DoGetRecordsFaulted \/ Resume

SpecFault == InitHydrate /\ [][NextFault]_vars

(***************************************************************************)
(* SpecWalk: the ordering-cursor walk of the later engine, one event at a  *)
(* time, on an open scalar-key store that holds a row for every key.  A    *)
(* walk in flight keeps the entries of its ordering source, the position   *)
(* of the cursor, the filter sets, the handler's locals, the number of     *)
(* continue() calls and the state of the promise.  The substrate may fail  *)
(* the pending cursor request at any event.                                *)
(***************************************************************************)
WalkRequests ==
  {Request(w, o, l, off) : w \in LifeWheres, o \in ScanOrders, l \in Pages,
                           off \in {Undefined, 1}}

\* the filter sets of a request the planner accepts
FilterSetsOf(st, sch, q) ==
  NormalizedSets(
    PKSets(st, buildCompositePKRange(sch.pk,
                                     FilterWheres(q.wheres, SeqRange(sch.pk), TRUE),
                                     Len(sch.pk) > 1))
    \o IndexSets(st, ScannedIndexWheres(FilterWheres(q.wheres, SeqRange(sch.pk), FALSE),
                                        BuilderOrderField(sch, q.order))),
    Len(sch.pk) > 1)

\* orderingSource.openKeyCursor(null, direction): the first event is due
Walk(q, entries, sets) ==
  [err |-> "none", sets |-> sets, entries |-> entries, skipped |-> 0,
   results |-> <<>>, q |-> q, pos |-> 1, advances |-> 0, due |-> TRUE,
   promise |-> "pending"]

\* cursor.continue(): the cursor moves on and another event is due
Continue(w) == [w EXCEPT !.pos = @ + 1, !.advances = @ + 1, !.due = TRUE]

\* resolve(results): settles the promise if it is pending
Resolve(w) ==
  [w EXCEPT !.due = FALSE,
            !.promise = IF @ = "pending" THEN "resolved" ELSE @]

\* reject(error): settles the promise if it is pending
Reject(w) ==
  [w EXCEPT !.due = FALSE,
            !.err = IF w.promise = "pending" THEN "SubstrateError" ELSE @,
            !.promise = IF @ = "pending" THEN "rejected" ELSE @]

\* variant: the cursor is continued after the resolve as well
PushedContinues(w) ==
  Continue(IF LimitReached(w.q.limit, Len(w.results)) THEN Resolve(w) ELSE w)

\* after results.push(pk): resolve and return at the limit, else continue
Pushed(w) ==
  IF LimitReached(w.q.limit, Len(w.results)) THEN Resolve(w) ELSE Continue(w)

\* req.onsuccess of the ordering cursor
Handled(w, isArray) ==
  IF w.pos > Len(w.entries) THEN Resolve(w)
  ELSE IF ~PassesNormalized(w.sets, w.entries[w.pos].primaryKey, isArray)
  THEN Continue(w)
  ELSE IF w.skipped < OffsetOr0(w.q.offset)
  THEN Continue([w EXCEPT !.skipped = @ + 1])
  ELSE Pushed([w EXCEPT !.results = Append(@, w.entries[w.pos].primaryKey)])

\* getKeysByIndexes up to the opening of the ordering cursor
OpenCursor(q) ==
  /\ last.op = "none"
  /\ inflight = <<>>
  /\ builder = <<>>
  /\ db = "open"
  /\ engineKeys(ver, schema, store, q).err = "none"
  /\ inflight' = <<Walk(q,
                        openKeyCursor(store,
                                      OrderingSource(schema, BuilderOrderField(schema, q.order)),
                                      NullRange, Direction(q.order.dir)),
                        FilterSetsOf(store, schema, q))>>
  /\ UNCHANGED <<ver, schema, db, store, cache, written, last, calls, subs, other, builder>>

DoOpenCursor == last.op = "none" /\ \E q \in WalkRequests : OpenCursor(q)

\* a success event of the cursor request is delivered
OnSuccess ==
  /\ inflight # <<>>
  /\ inflight[1].due
  /\ inflight' = <<Handled(inflight[1], Len(schema.pk) > 1)>>
  /\ UNCHANGED <<ver, schema, db, store, cache, written, last, calls, subs, other, builder>>

\* the substrate fails the pending cursor request: the error event reaches
\* req.onerror and then, bubbling, tx.onerror
OnError ==
  /\ inflight # <<>>
  /\ inflight[1].due
  /\ inflight[1].promise = "pending"
  /\ inflight' = <<Reject(Reject(inflight[1]))>>
  /\ UNCHANGED <<ver, schema, db, store, cache, written, last, calls, subs, other, builder>>

\* the caller awaiting keys() resumes with the promise's outcome
WalkSettled ==
  /\ inflight # <<>>
  /\ inflight[1].promise # "pending"
  /\ last' = [Idle EXCEPT !.op = "keys", !.q = inflight[1].q,
                          !.err = inflight[1].err,
                          !.keys = IF inflight[1].promise = "resolved"
                                   THEN inflight[1].results ELSE <<>>]
  /\ inflight' = <<>>
  /\ UNCHANGED <<ver, schema, db, store, cache, written, calls, subs, other, builder>>

InitWalk ==
  /\ ver = "later"
  /\ schema = ScalarSchema
  /\ db = "open"
  /\ store = Stored(ScalarSchema, StoresRecords)
  /\ written = ByKey(ScalarSchema, StoresRecords)
  /\ cache = <<>>
  /\ last = Idle
  /\ calls = <<>>
  /\ subs = <<>>
  /\ other = EmptyStore
  /\ inflight = <<>>
  /\ builder = <<>>

NextWalk == DoOpenCursor \/ OnSuccess \/ OnError \/ WalkSettled \/ Resume

\* an event that is due is delivered, and a settled promise resumes its caller
SpecWalk ==
  InitWalk /\ [][NextWalk]_vars /\ WF_vars(OnSuccess) /\ WF_vars(WalkSettled)

(***************************************************************************)
(* SpecRace: two update(...).exec() calls started together on the later    *)
(* engine, as in Promise.all([a.exec(), b.exec()]), one patching the index *)
(* field and the other the payload field.  Each runs its scan, its         *)
(* hydration and its puts in order; between two awaits of one the other    *)
(* may run any of its own steps.                                           *)
(***************************************************************************)
PointPatchesOf == [{"point"} -> Val]

\* an exec that has been called: it is about to scan
Exec(updates, q) ==
  [keys |-> <<>>, data |-> updates, records |-> <<>>, q |-> q, pc |-> "scan",
   next |-> 1]

\* the two calls are made one after the other, before either is awaited
BeginUpdates(a, qa, b, qb) ==
  /\ last.op = "none"
  /\ inflight = <<>>
  /\ builder = <<>>
  /\ db = "open"
  /\ inflight' = <<Exec(a, qa), Exec(b, qb)>>
  /\ UNCHANGED <<ver, schema, db, store, cache, written, last, calls, subs, other, builder>>

DoBeginUpdates ==
  /\ last.op = "none"
  /\ \E a \in AgePatches, b \in PointPatchesOf, qa \in LifeRequests, qb \in LifeRequests :
       BeginUpdates(a, qa, b, qb)

\* await this.engine.getKeysByIndexes(...) of exec i
Scanned(u, got) ==
  IF got.err # "none" THEN [u EXCEPT !.pc = "failed"]
  ELSE [u EXCEPT !.pc = "hydrate", !.keys = got.keys]

ScanStep(i) ==
  /\ i \in 1..Len(inflight)
  /\ inflight[i].pc = "scan"
  /\ inflight' = [inflight EXCEPT
                    ![i] = Scanned(@, engineKeys(ver, schema, store, inflight[i].q))]
  /\ UNCHANGED <<ver, schema, db, store, cache, written, last, calls, subs, other, builder>>

\* await this.engine.getRecordsByKeys(...) of exec i
HydrateSettled(i, h) ==
  /\ inflight' = [inflight EXCEPT ![i].pc = IF h.records = <<>> THEN "done" ELSE "put",
                                  ![i].records = h.records]
  /\ cache' = h.cache

HydrateStep(i) ==
  /\ i \in 1..Len(inflight)
  /\ inflight[i].pc = "hydrate"
  /\ HydrateSettled(i, getRecordsByKeys(ver, StoreName, schema, store, cache,
                                        CacheLimit, inflight[i].keys))
  /\ UNCHANGED <<ver, schema, db, store, written, last, calls, subs, other, builder>>

\* one pass of the for loop of exec i: Object.assign and the awaited put
PutStep(i) ==
  /\ i \in 1..Len(inflight)
  /\ inflight[i].pc = "put"
  /\ store' = enginePut(store, schema,
                        Spread(inflight[i].records[inflight[i].next], inflight[i].data))
  /\ written' = Upsert(written,
                       KeyOf(schema, Spread(inflight[i].records[inflight[i].next],
                                            inflight[i].data)),
                       Spread(inflight[i].records[inflight[i].next], inflight[i].data))
  /\ inflight' = [inflight EXCEPT
                    ![i].next = @ + 1,
                    ![i].pc = IF inflight[i].next = Len(inflight[i].records)
                              THEN "done" ELSE "put"]
  /\ UNCHANGED <<ver, schema, db, cache, last, calls, subs, other, builder>>

\* both promises have settled: the caller awaiting them resumes
BothSettled ==
  /\ Len(inflight) = 2
  /\ \A i \in 1..2 : inflight[i].pc \in {"done", "failed"}
  /\ last' = [Idle EXCEPT !.op = "updates",
                          !.count = Len(inflight[1].records) + Len(inflight[2].records)]
  /\ inflight' = <<>>
  /\ UNCHANGED <<ver, schema, db, store, cache, written, calls, subs, other, builder>>

StepOfEither == \E i \in 1..2 : ScanStep(i) \/ HydrateStep(i) \/ PutStep(i)

NextRace == DoBeginUpdates \/ StepOfEither \/ BothSettled \/ Resume

SpecRace == InitWalk /\ [][NextRace]_vars

(***************************************************************************)
(* SpecBuilder: one Query object kept by the caller on an open scalar-key  *)
(* store of either engine.  The caller makes it with any clauses, calls    *)
(* one(), keys() and all() on it in any order, and may drop it for a new   *)
(* one.  builder.made keeps the clauses the object was made with.          *)
(***************************************************************************)
\* db.query(store) followed by the chained where/order/limit/offset calls
NewBuilder(q) == [q |-> q, keysOnly |-> FALSE, made |-> q]

MakeBuilder(q) ==
  /\ last.op = "none"
  /\ builder = <<>>
  /\ builder' = NewBuilder(q)
  /\ UNCHANGED <<ver, schema, db, store, cache, written, last, calls, subs, other, inflight>>

DoMakeBuilder == last.op = "none" /\ \E q \in WalkRequests : MakeBuilder(q)

\* the caller lets go of the object
DropBuilder ==
  /\ last.op = "none"
  /\ builder # <<>>
  /\ builder' = <<>>
  /\ UNCHANGED <<ver, schema, db, store, cache, written, last, calls, subs, other, inflight>>

\* what executeQuery returns: the keys under keysOnly, else the records
Returned(b, r) == IF b.keysOnly THEN r.keys ELSE r.records

BuilderSettled(op, b, r) ==
  /\ last' = [Idle EXCEPT !.op = op, !.q = b.q, !.err = r.err, !.keys = r.keys,
                          !.records = Returned(b, r), !.scans = r.scans]
  /\ cache' = r.cache
  /\ builder' = b

\* a terminal call on the kept object, after the assignment it starts with
Terminal(op, b) ==
  /\ last.op = "none"
  /\ builder # <<>>
  /\ db = "open"
  /\ BuilderSettled(op, b, executeQuery(ver, StoreName, schema, store, cache, b.q,
                                        b.keysOnly))
  /\ UNCHANGED <<ver, schema, db, store, written, calls, subs, other, inflight>>

\* Query.all: no assignment
BuilderAll == builder # <<>> /\ Terminal("all", builder)

\* Query.one: this.limitVal = 1
BuilderOne ==
  builder # <<>> /\ Terminal("one", [builder EXCEPT !.q = OneLimited(builder.q)])

\* Query.keys: this.keysOnly = true
BuilderKeys == builder # <<>> /\ Terminal("keys", [builder EXCEPT !.keysOnly = TRUE])

InitBuilder ==
  /\ ver \in {"earlier", "later"}
  /\ schema = ScalarSchema
  /\ db = "open"
  /\ store = Stored(ScalarSchema, StoresRecords)
  /\ written = ByKey(ScalarSchema, StoresRecords)
  /\ cache = <<>>
  /\ last = Idle
  /\ calls = <<>>
  /\ subs = <<>>
  /\ other = EmptyStore
  /\ inflight = <<>>
  /\ builder = <<>>

NextBuilder ==
  DoMakeBuilder \/ DropBuilder \/ BuilderAll \/ BuilderOne \/ BuilderKeys \/ Resume

SpecBuilder == InitBuilder /\ [][NextBuilder]_vars

(***************************************************************************)
(* SpecKeyPatch: updates on an open scalar-key store of the later engine   *)
(* whose patches name the key field, the index field or both.              *)
(***************************************************************************)
KeyPatches == UNION {[F -> Val] : F \in (SUBSET {"id", "age"}) \ {{}}}

DoUpdateKey ==
  /\ last.op = "none"
  /\ \E updates \in KeyPatches, q \in LifeRequests : UpdateExec(updates, q)

NextKeyPatch == DoUpdateKey \/ Resume

SpecKeyPatch == InitScan /\ [][NextKeyPatch]_vars

(***************************************************************************)
(* SpecErr: the later engine on the composite-key store, opened over two   *)
(* persisted rows.  Requests carry up to two clauses on distinct fields,   *)
(* among them the payload field, and any order; they are issued as key     *)
(* reads, updates of the payload field and removes.                        *)
(***************************************************************************)
ErrRecords ==
  {r \in [FieldsOf(CompositeSchema) -> Val] :
     r["age"] = r["id"] /\ r["karma"] = 0 /\ r["salary"] = r["id"] /\ r["point"] = 0}

ErrFields == {"id", "age", "salary", "point"}

ErrClauses == {Pred(f, op, v) : f \in ErrFields, op \in {"==", ">"}, v \in Val}

ErrWheres ==
  {<<>>} \cup {<<a>> : a \in ErrClauses}
         \cup {w \in {<<a, b>> : a \in ErrClauses, b \in ErrClauses} :
                 w[1].field # w[2].field}

ErrOrders ==
  {NoOrder} \cup {[field |-> f, called |-> TRUE, dir |-> "asc"] :
                    f \in {"age", "salary", "point"}}

ErrRequests == {Request(w, o, Undefined, Undefined) : w \in ErrWheres, o \in ErrOrders}

PointPatches == [{"point"} -> Val]

ErrKeys == last.op = "none" /\ \E q \in ErrRequests : QueryKeys(q)

ErrUpdate ==
  /\ last.op = "none"
  /\ \E updates \in PointPatches, q \in ErrRequests : UpdateExec(updates, q)

ErrRemove == last.op = "none" /\ \E q \in ErrRequests : RemoveExec(q)

InitErr ==
  /\ ver = "later"
  /\ schema = CompositeSchema
  /\ db = "open"
  /\ store = Stored(CompositeSchema, ErrRecords)
  /\ written = ByKey(CompositeSchema, ErrRecords)
  /\ cache = <<>>
  /\ last = Idle
  /\ calls = <<>>
  /\ subs = <<>>
  /\ other = EmptyStore
  /\ inflight = <<>>
  /\ builder = <<>>

NextErr == ErrKeys \/ ErrUpdate \/ ErrRemove \/ Resume

SpecErr == InitErr /\ [][NextErr]_vars

(***************************************************************************)
(* SpecOpen: one handle on the scalar-key store from its construction on.  *)
(* open() may not have been called yet, may resolve, or may reject over a  *)
(* database that lacks another declared store; puts, key reads, updates    *)
(* and removes are issued at any time.                                     *)
(***************************************************************************)
DoKeys == last.op = "none" /\ \E q \in LifeRequests : QueryKeys(q)

InitOpen == \E v \in {"earlier", "later"} : InitWith(v, ScalarSchema)

NextOpen ==
  Open \/ OpenRejects \/ DoPutScan \/ DoKeys \/ DoUpdateAge \/ DoRemove \/ Resume

SpecOpen == InitOpen /\ [][NextOpen]_vars

(***************************************************************************)
(* SpecBatch: updates and removes on the scalar-key store, opened over any *)
(* persisted rows.  The substrate may reject any one write of a batch.     *)
(***************************************************************************)
DoUpdateFaulted ==
  /\ last.op = "none"
  /\ \E updates \in AgePatches, q \in LifeRequests : UpdateExecFaulted(updates, q)

DoRemoveFaulted == last.op = "none" /\ \E q \in LifeRequests : RemoveExecFaulted(q)

NextBatch == DoUpdateAge \/ DoRemove \/ DoUpdateFaulted \/ DoRemoveFaulted \/ Resume

SpecBatch == InitScan /\ [][NextBatch]_vars

(***************************************************************************)
(* SpecSub: one handle on the scalar-key store with subscriptions to the   *)
(* ADD and RM events, made and cancelled at any time between puts and      *)
(* removes.  last.heard lists the listener calls of the settled request.   *)
(***************************************************************************)
SubNames == {StoreName \o "-ADD", StoreName \o "-RM"}

SubRecords == {r \in ScanRecords : r["age"] = 0}

DoSubscribe ==
  /\ last.op = "none"
  /\ Len(subs) < MaxSubs
  /\ \E event \in SubNames : Subscribe(event)

DoUnsubscribe == last.op = "none" /\ \E i \in 1..Len(subs) : Unsubscribe(i)

DoPutSub == last.op = "none" /\ \E rec \in SubRecords : Put(rec, MaxRows)

InitSub == InitWith("later", ScalarSchema)

NextSub == Open \/ DoSubscribe \/ DoUnsubscribe \/ DoPutSub \/ DoRemove \/ Resume

SpecSub == InitSub /\ [][NextSub]_vars

(***************************************************************************)
(* SpecOrder: key reads on either store with either engine, opened over a  *)
(* row for every key.  Requests carry up to two clauses, equalities or     *)
(* strict bounds on any fields, the same field twice included, and are     *)
(* ordered by any field in either direction, by asc() or desc() without a  *)
(* field, or not at all.                                                   *)
(***************************************************************************)
OrderRecords(sch) ==
  IF Len(sch.pk) > 1 THEN MixedRecords ELSE {r \in ScanRecords : r["age"] = r["id"]}

OrderClauses(sch) ==
  {Pred(f, op, v) : f \in FieldsOf(sch), op \in {"==", ">", "<"}, v \in Val}

OrderWheres(sch) ==
  {<<>>} \cup {<<a>> : a \in OrderClauses(sch)}
         \cup {<<a, b>> : a \in OrderClauses(sch), b \in OrderClauses(sch)}

OrderChoices(sch) ==
  {NoOrder} \cup {[field |-> f, called |-> TRUE, dir |-> d] :
                    f \in FieldsOf(sch) \cup {NoField}, d \in {"asc", "desc"}}

OrderKeys ==
  /\ last.op = "none"
  /\ \E w \in OrderWheres(schema), o \in OrderChoices(schema) :
       QueryKeys(Request(w, o, Undefined, Undefined))

InitOrder ==
  /\ ver \in {"earlier", "later"}
  /\ schema \in CodecSchemas
  /\ db = "open"
  /\ store = Stored(schema, OrderRecords(schema))
  /\ written = ByKey(schema, OrderRecords(schema))
  /\ cache = <<>>
  /\ last = Idle
  /\ calls = <<>>
  /\ subs = <<>>
  /\ other = EmptyStore
  /\ inflight = <<>>
  /\ builder = <<>>

NextOrder == OrderKeys \/ Resume

SpecOrder == InitOrder /\ [][NextOrder]_vars

(***************************************************************************)
(* What a request is expected to do, stated on the rows alone.             *)
(***************************************************************************)
PosOf(sch, f) == CHOOSE i \in 1..Len(sch.pk) : sch.pk[i] = f

Holds(x, op, v) ==
  CASE op = "==" -> x = v
    [] op = ">"  -> x > v
    [] op = ">=" -> x >= v
    [] op = "<"  -> x < v
    [] op = "<=" -> x <= v

\* the value the row stored under key k has in field f
FieldOf(st, sch, k, f) ==
  IF f \in SeqRange(sch.pk) THEN k[PosOf(sch, f)] ELSE st[k][f]

Satisfies(st, sch, k, wheres) ==
  \A i \in 1..Len(wheres) :
    Holds(FieldOf(st, sch, k, wheres[i].field), wheres[i].op, wheres[i].value)

MatchingKeys(st, sch, wheres) == {k \in DOMAIN st : Satisfies(st, sch, k, wheres)}

\* natural key order: the first component that differs decides
KeyBefore(a, b) ==
  \E i \in 1..Len(a) : a[i] < b[i] /\ \A j \in 1..(i - 1) : a[j] = b[j]

Ascending(keys) == \A i \in 1..(Len(keys) - 1) : KeyBefore(keys[i], keys[i + 1])

Constrains(wheres, f) == \E i \in 1..Len(wheres) : wheres[i].field = f

DistinctFields(wheres) ==
  \A i, j \in 1..Len(wheres) : wheres[i].field = wheres[j].field => i = j

OpOn(wheres, f) == wheres[CHOOSE i \in 1..Len(wheres) : wheres[i].field = f].op

OnPK(sch, wheres) == \A i \in 1..Len(wheres) : wheres[i].field \in SeqRange(sch.pk)

AllEqualities(wheres) ==
  Len(wheres) >= 1 /\ \A i \in 1..Len(wheres) : wheres[i].op = "=="

\* a clause on component i while some component before it has none
SkipsComponent(sch, wheres) ==
  \E i \in 1..Len(sch.pk) : \E j \in 1..(i - 1) :
    Constrains(wheres, sch.pk[i]) /\ ~Constrains(wheres, sch.pk[j])

PinsAll(sch, wheres) == \A i \in 1..Len(sch.pk) : Constrains(wheres, sch.pk[i])

\* equalities on exactly the first k components
PinsPrefix(sch, wheres, k) ==
  /\ AllEqualities(wheres)
  /\ \A i \in 1..Len(sch.pk) : Constrains(wheres, sch.pk[i]) <=> i <= k

\* equalities on the first p components, a range on component p + 1, no more
PrefixThenRange(sch, wheres, p) ==
  /\ \A i \in 1..Len(sch.pk) : Constrains(wheres, sch.pk[i]) <=> i <= p + 1
  /\ \A i \in 1..p : OpOn(wheres, sch.pk[i]) = "=="
  /\ OpOn(wheres, sch.pk[p + 1]) # "=="

\* a range on some component and a clause on a component after it
RangeThenLater(sch, wheres) ==
  \E i \in 1..Len(sch.pk) : \E j \in (i + 1)..Len(sch.pk) :
    /\ Constrains(wheres, sch.pk[i])
    /\ OpOn(wheres, sch.pk[i]) # "=="
    /\ Constrains(wheres, sch.pk[j])

\* the field a request is ordered by: the one named, else the first key field
OrderingField(sch, q) ==
  IF q.order.called /\ q.order.field # NoField THEN q.order.field ELSE sch.pk[1]

Unpaged(q) == [q EXCEPT !.limit = Undefined, !.offset = Undefined]

Plain(q) == ~q.order.called /\ q.limit = Undefined /\ q.offset = Undefined

Min(a, b) == IF a <= b THEN a ELSE b

(***************************************************************************)
(* Claims.                                                                 *)
(***************************************************************************)

\* C1: a read that returns key k yields exactly the record most recently
\* written for k by a put or an update, whether the record comes from the
\* cache or from the store.
C1_ReadsLatestWrite ==
  (last.op = "all" /\ last.err = "none") =>
    /\ Len(last.records) = Len(last.keys)
    /\ \A i \in 1..Len(last.keys) :
         /\ last.keys[i] \in DOMAIN written
         /\ last.records[i] = written[last.keys[i]]

\* C2: an update whose patch has no key field leaves the rows its filter
\* does not match unchanged, replaces each matched row by its current stored
\* record with the patch fields overridden, and returns the number of
\* matched rows.
C2_UpdateMergesCurrentRow ==
  [][(/\ last.op = "none"
      /\ last'.op = "update"
      /\ last'.err = "none"
      /\ DOMAIN last'.data \cap SeqRange(schema.pk) = {})
     => LET matched == MatchingKeys(store, schema, last'.q.wheres)
        IN  /\ DOMAIN store' = DOMAIN store
            /\ \A k \in DOMAIN store :
                 store'[k] =
                   IF k \in matched
                   THEN encode(schema, Spread(decode(schema, store[k]), last'.data))
                   ELSE store[k]
            /\ last'.count = Cardinality(matched)]_vars

\* C3: with clauses on pairwise distinct fields, none on the ordering field,
\* and no offset and no limit, the keys returned are exactly the keys of the
\* rows that satisfy every clause.
C3_ExactMatches ==
  (/\ last.op = "keys"
   /\ last.err = "none"
   /\ DistinctFields(last.q.wheres)
   /\ ~Constrains(last.q.wheres, OrderingField(schema, last.q))
   /\ last.q.limit = Undefined
   /\ last.q.offset = Undefined)
  => SeqToSet(last.keys) = MatchingKeys(store, schema, last.q.wheres)

\* C4: every row a request returns satisfies the clauses on the field the
\* request is ordered by.
C4_OrderingClauseApplied ==
  (last.op = "keys" /\ last.err = "none") =>
    \A i \in 1..Len(last.keys) : \A j \in 1..Len(last.q.wheres) :
      last.q.wheres[j].field = OrderingField(schema, last.q) =>
        Holds(FieldOf(store, schema, last.keys[i], last.q.wheres[j].field),
              last.q.wheres[j].op, last.q.wheres[j].value)

C6_RemoveExactlySelected ==
  /\ [][(last.op = "none" /\ last'.op = "remove" /\ last'.err = "none")
        => LET selected == engineKeys(ver, schema, store, last'.q).keys
           IN  /\ last'.keys = selected
               /\ DOMAIN store' = DOMAIN store \ SeqToSet(selected)
               /\ \A k \in DOMAIN store' : store'[k] = store[k]]_vars
  /\ []((last.op = "keys" /\ last.err = "none")
        => SeqToSet(last.keys) \subseteq DOMAIN store)

C6_Witness ==
  /\ last.op = "remove"
  /\ last.err = "none"
  /\ Len(last.q.wheres) = 1
  /\ Len(last.keys) = 1
  /\ Cardinality(DOMAIN store) = 1
  /\ last.keys[1] \notin DOMAIN store

\* C7: on a composite key, equality clauses that skip a component fail with
\* the contiguity error; equality clauses on every component are accepted
\* and match the one row with that key, if the store holds it.
C7_Contiguity ==
  (/\ last.op = "keys"
   /\ Len(schema.pk) > 1
   /\ OnPK(schema, last.q.wheres)
   /\ DistinctFields(last.q.wheres)
   /\ AllEqualities(last.q.wheres)
   /\ Plain(last.q))
  => /\ SkipsComponent(schema, last.q.wheres) => last.err = "NotContiguous"
     /\ PinsAll(schema, last.q.wheres) =>
          /\ last.err = "none"
          /\ SeqToSet(last.keys) = MatchingKeys(store, schema, last.q.wheres)
          /\ Len(last.keys) <= 1

C7_Witness ==
  /\ last.op = "keys"
  /\ last.q.wheres = <<Pred("id", "==", 0), Pred("karma", "==", 1)>>
  /\ last.err = "NotContiguous"

\* C8: on a composite key, a range clause on a component together with a
\* clause on any later component, adjacent or not, makes the request fail.
C8_NothingAfterRange ==
  (/\ last.op = "keys"
   /\ Len(schema.pk) > 1
   /\ DistinctFields(last.q.wheres)
   /\ RangeThenLater(schema, last.q.wheres))
  => last.err # "none"

\* C9: equality clauses on exactly the first k key components return
\* exactly the rows whose first k components have the given values, in
\* ascending key order; for k = N that is one row or none.
C9_PrefixScan ==
  (/\ last.op = "keys"
   /\ Len(schema.pk) > 1
   /\ OnPK(schema, last.q.wheres)
   /\ DistinctFields(last.q.wheres)
   /\ \E k \in 1..Len(schema.pk) : PinsPrefix(schema, last.q.wheres, k)
   /\ Plain(last.q))
  => /\ last.err = "none"
     /\ SeqToSet(last.keys) = MatchingKeys(store, schema, last.q.wheres)
     /\ Ascending(last.keys)
     /\ PinsAll(schema, last.q.wheres) => Len(last.keys) <= 1

C9_Witness ==
  /\ last.op = "keys"
  /\ last.q.wheres = <<Pred("id", "==", 0), Pred("age", "==", 1)>>
  /\ last.err = "none"
  /\ Len(last.keys) = 2
  /\ Cardinality(DOMAIN store) > 2

\* C10: equality clauses on the first p key components and one range clause
\* on component p + 1 return exactly the rows whose first p components have
\* the given values and whose component p + 1 satisfies the range, in
\* ascending key order, whether or not component p + 1 is the last.
C10_RangeScan ==
  (/\ last.op = "keys"
   /\ Len(schema.pk) > 1
   /\ OnPK(schema, last.q.wheres)
   /\ DistinctFields(last.q.wheres)
   /\ \E p \in 0..(Len(schema.pk) - 1) : PrefixThenRange(schema, last.q.wheres, p)
   /\ Plain(last.q))
  => /\ last.err = "none"
     /\ SeqToSet(last.keys) = MatchingKeys(store, schema, last.q.wheres)
     /\ Ascending(last.keys)

C10_Witness ==
  /\ last.op = "keys"
  /\ last.q.wheres = <<Pred("id", "==", 0), Pred("age", ">", 0)>>
  /\ last.err = "none"
  /\ Len(last.keys) = 2
  /\ \E k \in DOMAIN store : k[1] = 0 /\ k[2] = 0

\* the calls after call p are all sets of keys the cache did not hold,
\* distinct from each other and from the key of call p
NewKeysAfter(p) ==
  /\ \A i \in (p + 1)..Len(calls) :
       /\ calls[i].call = "set"
       /\ ~calls[i].held
       /\ calls[i].key # calls[p].key
  /\ \A i, j \in (p + 1)..Len(calls) : i # j => calls[i].key # calls[j].key

\* C11: whatever get, set, delete and clear calls are made with whatever
\* keys, the cache never holds more entries than its capacity.
C11_SizeWithinCapacity == Len(cache) <= CacheLimit

\* C12: after set on C + 1 distinct keys and nothing else, the key set
\* first is absent and the other C keys are present.
C12_EvictsFirstInserted ==
  (/\ Len(calls) = CacheLimit + 1
   /\ calls[1].call = "set"
   /\ NewKeysAfter(1))
  => /\ ~lruHas(cache, calls[1].key)
     /\ \A i \in 2..Len(calls) : lruHas(cache, calls[i].key)

\* C13 as stated: a get on a held key K followed by set on C more new
\* distinct keys leaves K present.
C13_GetThenCapacityMore ==
  \A p \in 1..Len(calls) :
    (/\ calls[p].call = "get"
     /\ calls[p].held
     /\ Len(calls) - p = CacheLimit
     /\ NewKeysAfter(p))
    => lruHas(cache, calls[p].key)

\* C13 amended: a get on a held key K followed by set on up to C - 1 more
\* new distinct keys leaves K present.
C13_GetRefreshesRecency ==
  \A p \in 1..Len(calls) :
    (/\ calls[p].call = "get"
     /\ calls[p].held
     /\ Len(calls) - p <= CacheLimit - 1
     /\ NewKeysAfter(p))
    => lruHas(cache, calls[p].key)

C13_Witness ==
  /\ Len(calls) = CacheLimit + 2
  /\ \A i \in 1..CacheLimit : calls[i].call = "set" /\ ~calls[i].held
  /\ calls[CacheLimit + 1].call = "get"
  /\ calls[CacheLimit + 1].key = calls[1].key
  /\ NewKeysAfter(CacheLimit + 1)
  /\ Len(cache) = CacheLimit
  /\ cache[1].key = calls[1].key
  /\ ~lruHas(cache, calls[2].key)

\* the cache holds an entry made for key k of the store
EntryFor(c, k) == \E j \in 1..Len(c) : c[j].key.k = k

\* the value a lookup of key k finds in the cache
CachedValue(c, ck) == c[MapIndex(c, ck)].value

\* key by key: the cached record on a hit, else the decoded row of the
\* store, else nothing
RECURSIVE KeyByKey(_, _, _, _, _)
KeyByKey(v, sch, st, c, keys) ==
  IF keys = <<>> THEN <<>>
  ELSE (IF lruHas(c, CacheKey(v, StoreName, Head(keys), Len(sch.pk) > 1))
        THEN <<CachedValue(c, CacheKey(v, StoreName, Head(keys), Len(sch.pk) > 1))>>
        ELSE IF Head(keys) \in DOMAIN st
        THEN <<decode(sch, st[Head(keys)])>>
        ELSE <<>>)
       \o KeyByKey(v, sch, st, c, Tail(keys))

\* C14: hydration returns, in the order of the input keys, the record of
\* every key that resolved (in the cache or in the store); a key in neither
\* is dropped without an error and without moving the others.
C14_HydrationKeepsOrder ==
  [][last'.op = "records"
       => /\ last'.err = "none"
          /\ last'.records = KeyByKey(ver, schema, store, cache, last'.keys)]_vars

C14_Witness ==
  /\ last.op = "records"
  /\ Len(last.keys) = 3
  /\ last.keys[1] \in DOMAIN store
  /\ last.keys[2] \notin DOMAIN store
  /\ last.keys[3] \in DOMAIN store
  /\ Len(last.records) = 2

\* C15: a key hydrated earlier whose cache entry is still held is not read
\* from the store again by a later hydration.
C15_NoReadWhenCached ==
  [][last'.op = "records"
       => \A i \in 1..Len(last'.keys) :
            EntryFor(cache, last'.keys[i]) => last'.keys[i] \notin SeqToSet(last'.data)]_vars

\* the records a settled put or update wrote
WrittenBy(l) ==
  IF l.op = "put" THEN {l.data}
  ELSE {Spread(l.records[i], l.data) : i \in 1..Len(l.records)}

\* C16: once a put or an update's write for key k has completed, every
\* cache entry held for k equals the record just written; none keeps the
\* record from before the write.
C16_CacheReflectsWrite ==
  (last.op \in {"put", "update"} /\ last.err = "none")
  => \A rec \in WrittenBy(last) : \A j \in 1..Len(cache) :
       cache[j].key.k = KeyOf(schema, rec) => cache[j].value = rec

\* C17: once remove(...).exec() has completed, the cache holds no entry for
\* a removed key, so no entry made before the removal can serve the row
\* after it is put again.
C17_RemoveDropsEntries ==
  (last.op = "remove" /\ last.err = "none")
  => \A i \in 1..Len(last.keys) : ~EntryFor(cache, last.keys[i])

SameTuple(sch, k, rec) ==
  /\ Len(k) = Len(sch.pk)
  /\ \A i \in 1..Len(sch.pk) : k[i] = rec[sch.pk[i]]

\* C19: a put replaces the row with the same full key tuple, or adds a row
\* when the record differs in any key component, and touches no other row;
\* so the store always holds one row per key tuple put, with the content of
\* the last put for it.
C19_PutUpserts ==
  /\ [][(last'.op = "put" /\ last'.err = "none")
        => /\ \A k \in DOMAIN store :
                ~SameTuple(schema, k, last'.data)
                => k \in DOMAIN store' /\ store'[k] = store[k]
           /\ \A k \in DOMAIN store' :
                SameTuple(schema, k, last'.data) \/ k \in DOMAIN store
           /\ Cardinality({k \in DOMAIN store' : SameTuple(schema, k, last'.data)}) = 1
           /\ \A k \in DOMAIN store' :
                SameTuple(schema, k, last'.data)
                => decode(schema, store'[k]) = last'.data]_vars
  /\ [](/\ DOMAIN store = DOMAIN written
        /\ \A k \in DOMAIN store : decode(schema, store[k]) = written[k])

C19_Witness ==
  /\ last.op = "put"
  /\ last.err = "none"
  /\ Cardinality(DOMAIN store) = 2
  /\ \A k \in DOMAIN store : k[1] = last.data["id"] /\ k[2] = last.data["age"]
  /\ \E k \in DOMAIN store : k[3] # last.data["karma"]

\* results[0] of a list: one record, or nothing
FirstOf(records) == IF records = <<>> THEN <<>> ELSE <<records[1]>>

\* what one() settled with against what all() gives
OneAgrees(one, all) ==
  /\ one.err = all.err
  /\ one.records = FirstOf(all.records)

\* C20: one() returns the first element of what all() returns for the same
\* clauses, order and offset, and undefined when that list is empty; it
\* fails when all() fails.
C20_OneIsFirstOfAll ==
  [][last'.op = "one"
       => OneAgrees(last', executeQuery(ver, StoreName, schema, store, cache, last'.q, FALSE))]_vars

C20_Witness ==
  /\ last.op = "one"
  /\ last.err = "none"
  /\ last.q.offset = 1
  /\ last.q.order.dir = "desc"
  /\ Cardinality(DOMAIN store) = 2
  /\ Len(last.records) = 1
  /\ \A k \in DOMAIN store : k[1] >= last.records[1]["id"]

\* the fields of a store's schema that are a key component or an index
Declared(sch) == SeqRange(sch.pk) \cup SeqRange(sch.index)

PlannerErrors ==
  {"OrderNotIndexed", "OrderNotFirst", "NotContiguous", "LaterComponents", "NotIndexed"}

\* C22: a request that fails with a planner error has opened no key cursor
\* on the store or on an index, has written nothing and has emitted no
\* notification.
C22_PlannerErrorsBeforeIO ==
  [][last'.err \in PlannerErrors
       => /\ last'.scans = <<>>
          /\ store' = store
          /\ last'.emitted = <<>>]_vars

\* C23: a put, key read, update or remove issued while open() has not
\* resolved (not called, or rejected for a missing declared store) fails
\* with the not-open error, reads and writes nothing in the store and opens
\* no cursor.
C23_NotOpenBeforeOpen ==
  [][(db # "open" /\ last'.op \in {"put", "keys", "update", "remove"})
       => /\ last'.err = "NotOpen"
          /\ last'.scans = <<>>
          /\ store' = store
          /\ cache' = cache]_vars

\* C24: when the write of the i-th selected row of an update or a remove
\* fails, the request fails and emits nothing, the rows selected before the
\* i-th carry the write (the merged record, or they are gone), and the
\* i-th row, the rows selected after it and every unselected row are as
\* they were.
C24_PartialBatchStays ==
  [][last'.err = "SubstrateError"
       => LET selected == engineKeys(ver, schema, store, last'.q).keys
              i == last'.count + 1
          IN  /\ last'.keys = selected
              /\ i \in 1..Len(selected)
              /\ last'.emitted = <<>>
              /\ \A k \in DOMAIN store \ {selected[j] : j \in 1..(i - 1)} :
                   k \in DOMAIN store' /\ store'[k] = store[k]
              /\ \A j \in 1..(i - 1) :
                   IF last'.op = "update"
                   THEN /\ selected[j] \in DOMAIN store'
                        /\ store'[selected[j]] =
                             encode(schema, Spread(decode(schema, store[selected[j]]),
                                                   last'.data))
                   ELSE selected[j] \notin DOMAIN store'
              /\ DOMAIN store' \subseteq DOMAIN store]_vars

C24_Witness ==
  /\ last.op = "update"
  /\ last.err = "SubstrateError"
  /\ Len(last.keys) = 2
  /\ last.count = 1
  /\ decode(schema, store[last.keys[1]])["age"] = last.data["age"]
  /\ decode(schema, store[last.keys[2]])["age"] # last.data["age"]

\* the calls the listener of subscription i received from request l
CallsOf(l, i) == {j \in 1..Len(l.heard) : l.heard[j].sub = i}

\* C25: the listener of a subscription is called exactly once, with the
\* emitted detail, by each emission of its event name made while it is
\* registered, and by nothing else: not by an emission made before it
\* subscribed, not by one made after its unsubscribe function was called,
\* not by an emission of another name.  A cancelled subscription stays
\* cancelled, and cancelling one leaves the others registered.
C25_HeardWhileRegistered ==
  [][/\ \A i \in 1..Len(subs') :
          IF /\ last' # last
             /\ i <= Len(subs)
             /\ subs[i].active
             /\ \E k \in 1..Len(last'.emitted) : last'.emitted[k].name = subs[i].event
          THEN /\ Cardinality(CallsOf(last', i)) = 1
               /\ \A j \in CallsOf(last', i) :
                    last'.heard[j].detail = last'.emitted[1].detail
          ELSE last' # last => CallsOf(last', i) = {}
     /\ \A i \in 1..Len(subs) :
          /\ i <= Len(subs')
          /\ subs'[i].event = subs[i].event
          /\ ~subs[i].active => ~subs'[i].active
     /\ Cardinality({i \in 1..Len(subs) : subs[i].active /\ ~subs'[i].active}) <= 1]_vars

C25_Witness ==
  /\ Len(subs) = 2
  /\ subs[1].event = subs[2].event
  /\ ~subs[1].active
  /\ subs[2].active
  /\ last.op = "remove"
  /\ Len(last.keys) = 2
  /\ last.emitted # <<>>
  /\ last.emitted[1].name = subs[2].event
  /\ CallsOf(last, 1) = {}
  /\ CallsOf(last, 2) = {1}

\* the value key k's row has in the field request q is ordered by
OrderValue(st, sch, q, k) == FieldOf(st, sch, k, OrderingField(sch, q))

Descending(q) == q.order.called /\ q.order.dir = "desc"

\* C26 as stated: consecutive rows are in the declared direction of the
\* ordering field, and rows equal in that field are in ascending key order.
C26_TiesInKeyOrder ==
  (last.op = "keys" /\ last.err = "none") =>
    \A i \in 1..(Len(last.keys) - 1) :
      LET a == OrderValue(store, schema, last.q, last.keys[i])
          b == OrderValue(store, schema, last.q, last.keys[i + 1])
      IN  \/ IF Descending(last.q) THEN a > b ELSE a < b
          \/ a = b /\ KeyBefore(last.keys[i], last.keys[i + 1])

\* C26 amended: consecutive rows are in the declared direction of the
\* ordering field, and rows equal in that field are in key order of the
\* same direction: ascending for asc and for no order call, descending for
\* desc.
C26_OrderedInDirection ==
  (last.op = "keys" /\ last.err = "none") =>
    \A i \in 1..(Len(last.keys) - 1) :
      LET a == OrderValue(store, schema, last.q, last.keys[i])
          b == OrderValue(store, schema, last.q, last.keys[i + 1])
      IN  IF Descending(last.q)
          THEN a > b \/ (a = b /\ KeyBefore(last.keys[i + 1], last.keys[i]))
          ELSE a < b \/ (a = b /\ KeyBefore(last.keys[i], last.keys[i + 1]))

C26_Witness ==
  /\ last.op = "keys"
  /\ last.err = "none"
  /\ last.q.order = [field |-> "age", called |-> TRUE, dir |-> "desc"]
  /\ Len(last.keys) = 2
  /\ store[last.keys[1]]["age"] = store[last.keys[2]]["age"]
  /\ last.keys[1][1] > last.keys[2][1]

\* the request names an order field that is neither the first key
\* component nor an index
BadOrderField(sch, q) ==
  /\ q.order.called
  /\ q.order.field # NoField
  /\ q.order.field # sch.pk[1]
  /\ q.order.field \notin SeqRange(sch.index)

\* C27: a request ordered by an unindexed field or by a key component
\* other than the first fails and returns no keys.
C27_BadOrderFails ==
  (last.op = "keys" /\ BadOrderField(schema, last.q))
  => last.err # "none" /\ last.keys = <<>>

C27_Witness ==
  /\ last.op = "keys"
  /\ ver = "later"
  /\ last.q.order.field = "karma"
  /\ last.q.wheres = <<>>
  /\ last.err = "OrderNotFirst"
  /\ last.keys = <<>>
  /\ DOMAIN store # {}

\* the request has a clause on a field that is no key component and no index
UnindexedClause(sch, q) ==
  \E i \in 1..Len(q.wheres) : q.wheres[i].field \notin Declared(sch)

\* the errors that name a field as not indexed
UnindexedErrors == {"NotIndexed", "OrderNotIndexed"}

\* the request has no defect in its ordering or in its key clauses
WellFormedOtherwise(sch, q) ==
  /\ ~BadOrderField(sch, q)
  /\ Len(sch.pk) > 1 =>
       ~SkipsComponent(sch, q.wheres) /\ ~RangeThenLater(sch, q.wheres)

\* C28 as stated: a request with a clause on an unindexed field fails with
\* an unindexed-field error, whatever else it carries.
C28_UnindexedErrorAlways ==
  (last.op = "keys" /\ UnindexedClause(schema, last.q))
  => last.err \in UnindexedErrors

\* C28 amended: a request with a clause on an unindexed field fails with a
\* planner error and returns no keys; the error is an unindexed-field error
\* when the request's ordering and key clauses have no defect of their own.
C28_UnindexedClauseFails ==
  (last.op = "keys" /\ UnindexedClause(schema, last.q))
  => /\ last.err \in PlannerErrors
     /\ last.keys = <<>>
     /\ WellFormedOtherwise(schema, last.q) => last.err \in UnindexedErrors

C28_Witness ==
  /\ last.op = "keys"
  /\ ver = "later"
  /\ Len(schema.pk) > 1
  /\ last.q.wheres = <<Pred("id", "==", 0), Pred("point", "==", 0)>>
  /\ last.q.order = [field |-> "salary", called |-> TRUE, dir |-> "desc"]
  /\ last.err = "NotIndexed"
  /\ last.scans = <<StoreSource>>

\* C29: a query never returns more keys than its limit, for every limit
\* from 0 up; under limit(0) the result is empty.
C29_NeverMoreThanLimit ==
  (last.op = "keys" /\ last.q.limit # Undefined)
  => Len(last.keys) <= last.q.limit

\* the clauses of the request on key components
KeyClauses(sch, q) == FilterWheres(q.wheres, SeqRange(sch.pk), TRUE)

\* two clauses of the request are on the same key component
SameKeyFieldTwice(sch, q) ==
  \E i, j \in 1..Len(q.wheres) :
    i # j /\ q.wheres[i].field = q.wheres[j].field
          /\ q.wheres[i].field \in SeqRange(sch.pk)

\* C30: when two or more clauses are on the same primary-key field, every
\* key returned is of a row that satisfies all of them.
C30_AllKeyClausesHold ==
  (last.op = "keys" /\ last.err = "none" /\ SameKeyFieldTwice(schema, last.q))
  => \A i \in 1..Len(last.keys) :
       Satisfies(store, schema, last.keys[i], KeyClauses(schema, last.q))

\* C31: when decode merges a stored record, each indexed field of the result
\* has the value stored at the record's top level, also when the decoded
\* payload carries a field of the same name.
C31_IndexedTakePrecedence ==
  (last.op = "decodeStored" /\ schema.encoding)
  => \A f \in Declared(schema) :
       last.records[1][f] = last.keys[1][f]

\* C32: the canonical form is injective on the keys of a store, so a cursor
\* key that is not among the keys a scan collected fails the membership
\* test of that scan's filter set.
C32_CanonicalFormInjective ==
  (last.op = "member" /\ last.keys[1] \notin last.data) => last.count = 0

\* C33: the records a query on the second store returns are the rows of
\* that store: no record hydrated for the same key of the first store is
\* returned in their place.
C33_CacheKeyedByStore ==
  (last.op = "allOther" /\ last.err = "none")
  => /\ Len(last.records) = Len(last.keys)
     /\ \A i \in 1..Len(last.keys) :
          last.records[i] = decode(schema, other[last.keys[i]])

\* the records of the keys the store holds, in the order of the keys
RECURSIVE PresentOnly(_, _, _)
PresentOnly(sch, st, keys) ==
  IF keys = <<>> THEN <<>>
  ELSE (IF Head(keys) \in DOMAIN st THEN <<decode(sch, st[Head(keys)])>> ELSE <<>>)
       \o PresentOnly(sch, st, Tail(keys))

\* C34: a hydration in which the read of a missed key fails is rejected
\* with the substrate's error and gives the caller no record, whatever the
\* other keys resolved to; a hydration whose reads all answer succeeds also
\* when keys are absent from the store, and returns the records of the
\* keys that are present.
C34_ReadFaultFailsAll ==
  /\ (last.op = "records" /\ last.err # "none")
     => last.err = "SubstrateError" /\ last.records = <<>>
  /\ (last.op = "records" /\ last.err = "none")
     => last.records = PresentOnly(schema, store, last.keys)

C34_Witness ==
  /\ last.op = "records"
  /\ last.err = "SubstrateError"
  /\ Len(last.keys) = 3
  /\ last.keys[1] \notin DOMAIN store
  /\ last.keys[2] \in DOMAIN store
  /\ last.count = 2
  /\ last.records = <<>>
  /\ \E j \in 1..Len(cache) : cache[j].key.k = last.keys[2]

\* the limit-th key of the walk in flight has been collected
LimitCollected(w) == w.q.limit # Undefined /\ w.q.limit >= 1 /\ Len(w.results) >= w.q.limit

\* continue() was called at most once per entry of the ordering source
WalkAdvancesBounded ==
  inflight # <<>> => inflight[1].advances <= Len(inflight[1].entries)

\* no continue() once the limit-th key is collected
WalkStopsAtLimit ==
  (inflight # <<>> /\ inflight' # <<>> /\ LimitCollected(inflight[1]))
  => inflight[1]'.advances = inflight[1].advances

\* a settled promise stays as it settled, and no event follows it
WalkSettlesOnce ==
  (inflight # <<>> /\ inflight' # <<>> /\ inflight[1].promise # "pending")
  => /\ inflight[1]'.promise = inflight[1].promise
     /\ inflight[1]'.results = inflight[1].results
     /\ ~inflight[1].due

\* the caller gets the collected keys, at the limit or at the end of the
\* cursor, or the substrate's error
WalkOutcome ==
  (inflight # <<>> /\ inflight' = <<>>)
  => \/ /\ last'.err = "none"
        /\ last'.keys = inflight[1].results
        /\ \/ inflight[1].pos > Len(inflight[1].entries)
           \/ LimitReached(inflight[1].q.limit, Len(inflight[1].results))
     \/ /\ last'.err = "SubstrateError"
        /\ last'.keys = <<>>

\* C35: the ordering-cursor walk advances the cursor at most once per entry
\* of the ordering source, never advances it once the limit-th key has been
\* collected, and the request settles, exactly once: with the collected
\* keys at the limit or at the end of the cursor, or with the substrate's
\* error.
C35_WalkStopsAndSettlesOnce ==
  /\ []WalkAdvancesBounded
  /\ [][WalkStopsAtLimit /\ WalkSettlesOnce /\ WalkOutcome]_vars
  /\ (inflight # <<>>) ~> (inflight = <<>>)

C35_Witness ==
  /\ inflight # <<>>
  /\ inflight[1].promise = "resolved"
  /\ inflight[1].q.limit = 1
  /\ Len(inflight[1].results) = 1
  /\ inflight[1].advances = 1
  /\ inflight[1].pos < Len(inflight[1].entries) + 1
  /\ Len(inflight[1].entries) = 2

\* both update calls in flight have completed
BothDone == Len(inflight) = 2 /\ \A i \in 1..2 : inflight[i].pc = "done"

\* the stored row under key k carries the patch of exec i
CarriesPatch(k, i) ==
  /\ k \in DOMAIN store
  /\ \A f \in DOMAIN inflight[i].data :
       decode(schema, store[k])[f] = inflight[i].data[f]

\* C36: when two updates that match the same row and patch disjoint fields
\* interleave, then after both have completed the stored row carries the
\* patched values of both.
C36_BothPatchesKept ==
  BothDone
  => \A k \in SeqToSet(inflight[1].keys) \cap SeqToSet(inflight[2].keys) :
       CarriesPatch(k, 1) /\ CarriesPatch(k, 2)

\* C37: all() on a kept Query object returns what all() returns on a fresh
\* object with the clauses the kept one was made with, whatever terminal
\* calls were made on it before.
C37_TerminalCallsKeepBuilder ==
  (last.op = "all" /\ builder # <<>>)
  => /\ last.err = engineKeys(ver, schema, store, builder.made).err
     /\ last.records =
          PresentOnly(schema, store, engineKeys(ver, schema, store, builder.made).keys)

\* C38: update(...).exec() neither creates nor deletes rows: whatever the
\* patch, one naming the key field included, the store holds the same set
\* of primary keys after the exec as before it.
C38_UpdateKeepsKeySet ==
  [][last'.op = "update" => DOMAIN store' = DOMAIN store]_vars

====
